---- MODULE Spec2Model ----
(***************************************************************************)
(* Dental mesh viewer: the viewer page's state (editable Mesh Documents,   *)
(* Selection Sets, picker groups, number-field drafts) and the tooth       *)
(* picking geometry (Newell plane, local frame, 2D classifier, registry).  *)
(*                                                                         *)
(* Numbers are integers in mesh units.  The boundary loops of the inputs   *)
(* lie in axis-aligned planes (or are degenerate), so every normalisation, *)
(* centroid and matrix inverse the code computes is exact on them.         *)
(***************************************************************************)
EXTENDS Integers, Sequences, FiniteSets, TLC

VARIABLES
    recs,        \* heap of Tooth Record objects: reference -> record
    docs,        \* heap of MeshJSON objects: reference -> [is_lower, centers]
    jsonData,    \* location.state.jsonData: [mesh1, mesh2] document references
    meshLocal,   \* mesh1Local / mesh2Local: side -> document reference or NULL
    activeIds,   \* activeIdsA / activeIdsB: side -> sequence of tooth ids
    show,        \* showA / showB
    showAllSplines, \* showAllSplinesA / showAllSplinesB
    pickersReady,\* pickersAReady / pickersBReady
    pickers,     \* pickersARef.current.children: side -> sequence of ToothPicker
    pending,     \* effects scheduled by the last render and not yet run
    drafts,      \* ToothAccordion drafts: side -> id -> text
    errors,      \* ToothAccordion errors: side -> id -> message or NULL
    nTyped,      \* number of handleChange events so far
    upload,      \* content of the uploaded annotation file (never written)
    route,       \* the screen shown
    handoff,     \* navigation state handed to the review screen, or NULL
    probe        \* ToothPicker under test and the raycaster's intersects list

vars == <<recs, docs, jsonData, meshLocal, activeIds, show,
          pickersReady, pickers, pending, drafts, errors,
          nTyped, upload, route, handoff, showAllSplines, probe>>

NULL == "null"

\* the null document reference (jsonData?.mesh2 ?? null)
NullRef == 0

\* an absent optional value, and a present one
None == <<>>

Some(x) == <<x>>

Sides == {"A", "B"}

\* ------------------------------------------------------------------ bounds

\* number of handleChange events explored per run
MaxTyping == 1
\* half-width of the grid of ray origins
GridMax == 3
\* the vertices of the polygons handed to the classifier lie on the even
\* points of a grid PolyMax + 1 wide and three high
PolyMax == 2
\* the points of the loops handed to the plane fitter lie on a grid of
\* LoopMax + 1 by LoopMax + 1 in a coordinate plane
LoopMax == 2
\* the longest normal handed to buildBasis
NormalMax == 2

\* ------------------------------------------------------------- sequences

Range(s) == {s[i] : i \in 1..Len(s)}

Includes(s, x) == \E i \in 1..Len(s) : s[i] = x

Abs(x) == IF x < 0 THEN -x ELSE x

Max2(a, b) == IF a >= b THEN a ELSE b

Min2(a, b) == IF a <= b THEN a ELSE b

RECURSIVE Gcd(_, _)
Gcd(a, b) == IF b = 0 THEN a ELSE Gcd(b, a % b)

RECURSIVE IsqrtBetween(_, _, _)
\* the r in lo..hi with r * r <= n < (r + 1) * (r + 1), by bisection
IsqrtBetween(n, lo, hi) ==
    IF lo = hi THEN lo
    ELSE LET mid == (lo + hi + 1) \div 2
         IN  IF mid * mid <= n THEN IsqrtBetween(n, mid, hi)
                               ELSE IsqrtBetween(n, lo, mid - 1)

\* floor of the square root
Isqrt(n) == IsqrtBetween(n, 0, Min2(n, 46340))

\* ------------------------------------------------------------------ text

\* A text is a sequence of one-character strings.
DigitChars == <<"0", "1", "2", "3", "4", "5", "6", "7", "8", "9">>

IsDigit(c) == \E i \in 1..10 : DigitChars[i] = c

DigitVal(c) == (CHOOSE i \in 1..10 : DigitChars[i] = c) - 1

\* /^[0-9]+$/.test(val)
AllDigits(val) == Len(val) > 0 /\ \A i \in 1..Len(val) : IsDigit(val[i])

\* raw.trim(): leading and trailing blanks removed
RECURSIVE TrimLeft(_)
TrimLeft(raw) ==
    IF Len(raw) > 0 /\ raw[1] = " " THEN TrimLeft(Tail(raw)) ELSE raw

RECURSIVE TrimRight(_)
TrimRight(raw) ==
    IF Len(raw) > 0 /\ raw[Len(raw)] = " "
    THEN TrimRight(SubSeq(raw, 1, Len(raw) - 1))
    ELSE raw

Trim(raw) == TrimRight(TrimLeft(raw))

RECURSIVE DecimalValue(_)
DecimalValue(digits) ==
    IF Len(digits) = 0 THEN 0
    ELSE 10 * DecimalValue(SubSeq(digits, 1, Len(digits) - 1))
         + DigitVal(digits[Len(digits)])

\* Number(raw) on the texts of the model: blanks are trimmed, the empty text
\* is 0, a run of decimal digits is its value, anything else is NaN.
NumberOf(raw) ==
    LET t == Trim(raw) IN
    IF Len(t) = 0 THEN [finite |-> TRUE, value |-> 0]
    ELSE IF AllDigits(t) THEN [finite |-> TRUE, value |-> DecimalValue(t)]
    ELSE [finite |-> FALSE, value |-> 0]

\* String(num) for a non-negative integer
RECURSIVE StringOf(_)
StringOf(num) ==
    IF num < 10 THEN <<DigitChars[num + 1]>>
    ELSE Append(StringOf(num \div 10), DigitChars[(num % 10) + 1])

\* -------------------------------------------------------------- vectors

\* applyMatrix4 through the zero matrix yields 0 * Infinity in every
\* coordinate; the model writes that value NaN.
NaN == 0 - 1000000

IsNaN(x) == x = NaN

Dot3(a, b) == a[1] * b[1] + a[2] * b[2] + a[3] * b[3]

Cross3(a, b) ==
    << a[2] * b[3] - a[3] * b[2],
       a[3] * b[1] - a[1] * b[3],
       a[1] * b[2] - a[2] * b[1] >>

Add3(a, b) == <<a[1] + b[1], a[2] + b[2], a[3] + b[3]>>

Sub3(a, b) == <<a[1] - b[1], a[2] - b[2], a[3] - b[3]>>

Scale3(a, k) == <<a[1] * k, a[2] * k, a[3] * k>>

Zero3 == <<0, 0, 0>>

LengthSq3(a) == Dot3(a, a)

\* Vector3.length(), exact on the axis-aligned vectors of the model
Length3(a) == Isqrt(LengthSq3(a))

\* normalize() dividing by length() itself: 0 / 0 for the zero vector
Normalize3_Unguarded(a) ==
    IF Length3(a) = 0 THEN <<NaN, NaN, NaN>>
    ELSE <<a[1] \div Length3(a), a[2] \div Length3(a), a[3] \div Length3(a)>>

\* Vector3.normalize(): divideScalar(length() || 1)
Normalize3(a) ==
    LET len == Length3(a)
        k == IF len = 0 THEN 1 ELSE len
    IN  <<a[1] \div k, a[2] \div k, a[3] \div k>>

\* --------------------------------------------------------- plane fitter

RECURSIVE NewellAcc_Open(_, _)
\* the accumulator without the edge from the last point to the first
NewellAcc_Open(points, k) ==
    IF k <= 1 THEN Zero3
    ELSE LET pi == points[k]
             pj == points[k - 1]
             n == NewellAcc_Open(points, k - 1)
         IN  << n[1] + (pj[2] - pi[2]) * (pj[3] + pi[3]),
                n[2] + (pj[3] - pi[3]) * (pj[1] + pi[1]),
                n[3] + (pj[1] - pi[1]) * (pj[2] + pi[2]) >>

RECURSIVE NewellAcc(_, _)
\* the accumulator n after the loop has visited i = 1..k (j the predecessor
\* of i, the last point for i = 1)
NewellAcc(points, k) ==
    IF k = 0 THEN Zero3
    ELSE LET pi == points[k]
             pj == points[IF k = 1 THEN Len(points) ELSE k - 1]
             n == NewellAcc(points, k - 1)
         IN  << n[1] + (pj[2] - pi[2]) * (pj[3] + pi[3]),
                n[2] + (pj[3] - pi[3]) * (pj[1] + pi[1]),
                n[3] + (pj[1] - pi[1]) * (pj[2] + pi[2]) >>

RECURSIVE SumPoints(_, _)
SumPoints(points, k) ==
    IF k = 0 THEN Zero3 ELSE Add3(SumPoints(points, k - 1), points[k])

newellPlane(points) ==
    LET n == NewellAcc(points, Len(points))
        c == SumPoints(points, Len(points))
        len == Len(points)
    IN  [ normal |-> Normalize3(n),
          origin |-> <<c[1] \div len, c[2] \div len, c[3] \div len>> ]

\* -------------------------------------------------------- local frame

\* Matrix4 with last row (0, 0, 0, e15): rows r1..r3 of the linear part and
\* the translation column t.
ZeroMatrix == [r1 |-> Zero3, r2 |-> Zero3, r3 |-> Zero3, t |-> Zero3, e15 |-> 0]

\* makeBasis(u, v, n).setPosition(origin): u, v, n are the columns
MakeBasisAt(u, v, n, origin) ==
    [ r1 |-> <<u[1], v[1], n[1]>>,
      r2 |-> <<u[2], v[2], n[2]>>,
      r3 |-> <<u[3], v[3], n[3]>>,
      t |-> origin,
      e15 |-> 1 ]

Column(m, i) == <<m.r1[i], m.r2[i], m.r3[i]>>

\* the inverse of the linear part alone, the translation left at zero
Invert_LinearOnly(m) ==
    LET u == Column(m, 1)
        v == Column(m, 2)
        n == Column(m, 3)
        det == Dot3(u, Cross3(v, n))
    IN  IF det = 0 THEN ZeroMatrix
        ELSE LET a1 == Cross3(v, n)
                 a2 == Cross3(n, u)
                 a3 == Cross3(u, v)
             IN  [ r1 |-> <<a1[1] \div det, a1[2] \div det, a1[3] \div det>>,
                   r2 |-> <<a2[1] \div det, a2[2] \div det, a2[3] \div det>>,
                   r3 |-> <<a3[1] \div det, a3[2] \div det, a3[3] \div det>>,
                   t |-> Zero3,
                   e15 |-> 1 ]

\* Matrix4.invert(): the zero matrix when the determinant is 0, else the
\* adjugate divided by the determinant
Invert(m) ==
    LET u == Column(m, 1)
        v == Column(m, 2)
        n == Column(m, 3)
        det == Dot3(u, Cross3(v, n))
    IN  IF det = 0 THEN ZeroMatrix
        ELSE LET a1 == Cross3(v, n)
                 a2 == Cross3(n, u)
                 a3 == Cross3(u, v)
                 q1 == <<a1[1] \div det, a1[2] \div det, a1[3] \div det>>
                 q2 == <<a2[1] \div det, a2[2] \div det, a2[3] \div det>>
                 q3 == <<a3[1] \div det, a3[2] \div det, a3[3] \div det>>
             IN  [ r1 |-> q1, r2 |-> q2, r3 |-> q3,
                   t |-> << 0 - Dot3(q1, m.t), 0 - Dot3(q2, m.t), 0 - Dot3(q3, m.t) >>,
                   e15 |-> 1 ]

\* Vector3.applyMatrix4(m): w = 1 / e15 is Infinity for the zero matrix
ApplyMatrix4(p, m) ==
    IF m.e15 = 0 THEN <<NaN, NaN, NaN>>
    ELSE << Dot3(m.r1, p) + m.t[1], Dot3(m.r2, p) + m.t[2], Dot3(m.r3, p) + m.t[3] >>

\* Math.abs(n.y) < 0.9
NearlyParallelToY(n) == ~(10 * Abs(n[2]) < 9)

\* the frame with world Y as the reference axis whatever the normal
buildBasis_AlwaysY(normal, origin) ==
    LET n == Normalize3(normal)
        u == Normalize3(Cross3(n, <<0, 1, 0>>))
        v == Normalize3(Cross3(n, u))
        toWorld == MakeBasisAt(u, v, n, origin)
    IN  [ u |-> u, v |-> v, n |-> n, origin |-> origin,
          toWorld |-> toWorld, toLocal |-> Invert(toWorld) ]

buildBasis(normal, origin) ==
    LET n == Normalize3(normal)
        t == IF ~NearlyParallelToY(n) THEN <<0, 1, 0>> ELSE <<1, 0, 0>>
        u == Normalize3(Cross3(n, t))
        v == Normalize3(Cross3(n, u))
        toWorld == MakeBasisAt(u, v, n, origin)
    IN  [ u |-> u, v |-> v, n |-> n, origin |-> origin,
          toWorld |-> toWorld, toLocal |-> Invert(toWorld) ]

\* ------------------------------------------------- point-in-region classifier

HasNaN2(p) == IsNaN(p[1]) \/ IsNaN(p[2])

\* the crossing test with a.y >= p.y on its first end
EdgeCrosses_GreaterOrEqual(p, a, b) ==
    /\ ~HasNaN2(p) /\ ~HasNaN2(a) /\ ~HasNaN2(b)
    /\ (a[2] >= p[2]) # (b[2] > p[2])
    /\ b[2] # a[2]
    /\ LET d == b[2] - a[2]
           n == (b[1] - a[1]) * (p[2] - a[2])
       IN  IF d > 0 THEN (p[1] - a[1]) * d < n
                    ELSE (p[1] - a[1]) * d > n

\* one edge of the crossing test: a = poly[i], b = poly[j];
\* p.x < ((b.x - a.x) * (p.y - a.y)) / (b.y - a.y) + a.x, cleared of the
\* division (b.y # a.y whenever the first conjunct holds)
EdgeCrosses(p, a, b) ==
    /\ ~HasNaN2(p) /\ ~HasNaN2(a) /\ ~HasNaN2(b)
    /\ (a[2] > p[2]) # (b[2] > p[2])
    /\ LET d == b[2] - a[2]
           n == (b[1] - a[1]) * (p[2] - a[2])
       IN  IF d > 0 THEN (p[1] - a[1]) * d < n
                    ELSE (p[1] - a[1]) * d > n

RECURSIVE CrossingParity(_, _, _)
\* the value of inside after the loop has visited i = 1..k
CrossingParity(p, poly, k) ==
    IF k = 0 THEN FALSE
    ELSE LET a == poly[k]
             b == poly[IF k = 1 THEN Len(poly) ELSE k - 1]
             before == CrossingParity(p, poly, k - 1)
         IN  IF EdgeCrosses(p, a, b) THEN ~before ELSE before

pointInPolygon2D(p, poly) == CrossingParity(p, poly, Len(poly))

\* A distance is kept as its square, the fraction n / d: d = 0 with n = 1 is
\* Infinity and n = d = 0 is NaN.
Infinity == [n |-> 1, d |-> 0]

NaNDistance == [n |-> 0, d |-> 0]

\* x < y on distances; false when either is NaN
DistLess(x, y) == x.n * y.d < y.n * x.d

\* dist <= buffer, buffer a finite number >= 0
DistLeq(x, buffer) == x.d > 0 /\ x.n <= buffer * buffer * x.d

\* Math.max(0, Math.min(1, dot / abLen2)) as a reduced fraction
ClampedParam(dot, abLen2) ==
    IF abLen2 = 0 \/ dot <= 0 THEN [n |-> 0, d |-> 1]
    ELSE IF dot >= abLen2 THEN [n |-> 1, d |-> 1]
    ELSE LET g == Gcd(dot, abLen2) IN [n |-> dot \div g, d |-> abLen2 \div g]

pointToSegmentDistance2D(p, a, b) ==
    IF HasNaN2(p) \/ HasNaN2(a) \/ HasNaN2(b) THEN NaNDistance
    ELSE LET abx == b[1] - a[1]
             aby == b[2] - a[2]
             apx == p[1] - a[1]
             apy == p[2] - a[2]
             t == ClampedParam(apx * abx + apy * aby, abx * abx + aby * aby)
             \* p - c scaled by t.d, c = a + t * ab
             dx == apx * t.d - t.n * abx
             dy == apy * t.d - t.n * aby
             g == Gcd(dx * dx + dy * dy, t.d * t.d)
         IN  [n |-> (dx * dx + dy * dy) \div g, d |-> (t.d * t.d) \div g]

RECURSIVE MinEdgeDistance(_, _, _)
\* the value of min after the loop has visited i = 1..k
MinEdgeDistance(p, poly, k) ==
    IF k = 0 THEN Infinity
    ELSE LET j == IF k = 1 THEN Len(poly) ELSE k - 1
             d == pointToSegmentDistance2D(p, poly[j], poly[k])
             min == MinEdgeDistance(p, poly, k - 1)
         IN  IF DistLess(d, min) THEN d ELSE min

\* the minimum over the open polyline: the edge from the last vertex back to
\* the first is left out
distanceToPolygon2D_Open(p, poly) ==
    LET ds == { pointToSegmentDistance2D(p, poly[k - 1], poly[k]) : k \in 2..Len(poly) }
    IN  IF ds = {} \/ \E d \in ds : d.d = 0 THEN Infinity
        ELSE CHOOSE d \in ds : \A e \in ds : ~DistLess(e, d)

distanceToPolygon2D(p, poly) == MinEdgeDistance(p, poly, Len(poly))

\* -------------------------------------------------- pickable boundary region

\* Plane.setFromNormalAndCoplanarPoint(normal, point)
PlaneFrom(normal, point) ==
    [normal |-> normal, constant |-> 0 - Dot3(point, normal)]

\* new ToothPicker(toothNum, polyWorld3, edgeBuffer)
NewToothPicker(toothNum, polyWorld3, edgeBuffer) ==
    LET np == newellPlane(polyWorld3)
        basis == buildBasis(np.normal, np.origin)
    IN  [ toothNum |-> toothNum,
          edgeBuffer |-> edgeBuffer,
          toWorld |-> basis.toWorld,
          toLocal |-> basis.toLocal,
          plane |-> PlaneFrom(np.normal, np.origin),
          poly2 |-> [ i \in 1..Len(polyWorld3) |->
                        LET lp == ApplyMatrix4(polyWorld3[i], basis.toLocal)
                        IN  <<lp[1], lp[2]>> ],
          userData |-> [toothNum |-> toothNum, toothId |-> NULL] ]

\* Ray.intersectPlane(plane): the parameter t of the hit, or None.  The
\* directions of the model are axis unit vectors, so the division is exact.
RayDistanceToPlane(ray, plane) ==
    LET denominator == Dot3(plane.normal, ray.direction)
        signed == Dot3(plane.normal, ray.origin) + plane.constant
    IN  IF denominator = 0
        THEN (IF signed = 0 THEN Some(0) ELSE None)
        ELSE LET num == IF denominator > 0 THEN 0 - signed ELSE signed
                 t == num \div Abs(denominator)
             IN  IF num >= 0 THEN Some(t) ELSE None

\* the acceptance test without the edge buffer
Accepts_InsideOnly(inside, edgeDist, edgeBuffer) == inside

\* ToothPicker.raycast(raycaster, intersects): the intersects list afterwards
Accepts(inside, edgeDist, edgeBuffer) == inside \/ DistLeq(edgeDist, edgeBuffer)

raycast(picker, rc, intersects) ==
    LET found == RayDistanceToPlane(rc.ray, picker.plane) IN
    IF found = None THEN intersects
    ELSE LET t == found[1]
             hit == Add3(rc.ray.origin, Scale3(rc.ray.direction, t))
             dist == Length3(Sub3(hit, rc.ray.origin))
         IN  IF dist < rc.near \/ dist > rc.far THEN intersects
             ELSE LET lp == ApplyMatrix4(hit, picker.toLocal)
                      p2 == <<lp[1], lp[2]>>
                      inside == pointInPolygon2D(p2, picker.poly2)
                      edgeDist == distanceToPolygon2D(p2, picker.poly2)
                  IN  IF ~Accepts(inside, edgeDist, picker.edgeBuffer)
                      THEN intersects
                      ELSE Append(intersects,
                                  [object |-> picker, distance |-> dist, point |-> hit])

\* ------------------------------------------------------------ picker registry

\* Object.entries(json.centers): integer-like keys in ascending order
KeyOrder == <<"3", "7", "8", "12">>

Keys(centers) == SelectSeq(KeyOrder, LAMBDA id : id \in DOMAIN centers)

EdgeBufferDefault == 1

RECURSIVE BuildFrom_ShortLoops(_, _, _, _)
\* the loop with the length test one too low: spline.length < 2
BuildFrom_ShortLoops(entries, k, heap, edgeBuffer) ==
    IF k > Len(entries) THEN <<>>
    ELSE LET id == entries[k][1]
             t == heap[entries[k][2]]
             rest == BuildFrom_ShortLoops(entries, k + 1, heap, edgeBuffer)
         IN  IF t.prep # 1 THEN rest
             ELSE IF "spline" \notin DOMAIN t \/ Len(t.spline) < 2 THEN rest
             ELSE LET picker == NewToothPicker(t.num, t.spline, edgeBuffer)
                  IN  <<[picker EXCEPT !.userData =
                            [toothNum |-> t.num, toothId |-> id]]>> \o rest

RECURSIVE BuildFrom_Break(_, _, _, _)
\* the loop with break in place of continue: it ends at the first tooth it
\* skips
BuildFrom_Break(entries, k, heap, edgeBuffer) ==
    IF k > Len(entries) THEN <<>>
    ELSE LET id == entries[k][1]
             t == heap[entries[k][2]]
             rest == BuildFrom_Break(entries, k + 1, heap, edgeBuffer)
         IN  IF t.prep # 1 THEN <<>>
             ELSE IF "spline" \notin DOMAIN t \/ Len(t.spline) < 3 THEN <<>>
             ELSE LET picker == NewToothPicker(t.num, t.spline, edgeBuffer)
                  IN  <<[picker EXCEPT !.userData =
                            [toothNum |-> t.num, toothId |-> id]]>> \o rest

RECURSIVE BuildFrom_AnyPrep(_, _, _, _)
\* the loop without the prep test
BuildFrom_AnyPrep(entries, k, heap, edgeBuffer) ==
    IF k > Len(entries) THEN <<>>
    ELSE LET id == entries[k][1]
             t == heap[entries[k][2]]
             rest == BuildFrom_AnyPrep(entries, k + 1, heap, edgeBuffer)
         IN  IF "spline" \notin DOMAIN t \/ Len(t.spline) < 3 THEN rest
             ELSE LET picker == NewToothPicker(t.num, t.spline, edgeBuffer)
                  IN  <<[picker EXCEPT !.userData =
                            [toothNum |-> t.num, toothId |-> id]]>> \o rest

RECURSIVE BuildFrom(_, _, _, _)
\* the pickers pushed while the loop visits entries[k..]
BuildFrom(entries, k, heap, edgeBuffer) ==
    IF k > Len(entries) THEN <<>>
    ELSE LET id == entries[k][1]
             t == heap[entries[k][2]]
             rest == BuildFrom(entries, k + 1, heap, edgeBuffer)
         IN  IF t.prep # 1 THEN rest
             ELSE IF "spline" \notin DOMAIN t \/ Len(t.spline) < 3 THEN rest
             ELSE LET picker == NewToothPicker(t.num, t.spline, edgeBuffer)
                  IN  <<[picker EXCEPT !.userData =
                            [toothNum |-> t.num, toothId |-> id]]>> \o rest

\* buildToothPickersById(json, undefined, edgeBuffer), json.centers mapping
\* each id to a record reference of heap
buildToothPickersById(json, heap, edgeBuffer) ==
    LET keys == Keys(json.centers)
        entries == [i \in 1..Len(keys) |-> <<keys[i], json.centers[keys[i]]>>]
    IN  BuildFrom(entries, 1, heap, edgeBuffer)

\* ------------------------------------------------------------------ inputs

Square == << <<0, 0, 0>>, <<2, 0, 0>>, <<2, 2, 0>>, <<0, 2, 0>> >>

Triangle == << <<0, 0, 1>>, <<0, 3, 1>>, <<3, 0, 1>> >>

LShape == << <<0, 0, 0>>, <<4, 0, 0>>, <<4, 2, 0>>, <<2, 2, 0>>, <<2, 4, 0>>, <<0, 4, 0>> >>

SquareY == << <<0, 1, 0>>, <<2, 1, 0>>, <<2, 1, 2>>, <<0, 1, 2>> >>

Collinear == << <<0, 0, 0>>, <<1, 0, 0>>, <<2, 0, 0>> >>

TwoPoints == << <<0, 0, 0>>, <<2, 0, 0>> >>

\* the boundary loops of mesh1's teeth "3", "7", "12"; keyed is false when
\* tooth "12" has no spline key at all
LayoutPlanes == [a |-> Square, b |-> Triangle, c |-> SquareY, keyed |-> TRUE]

LayoutDegenerate == [a |-> TwoPoints, b |-> Collinear, c |-> <<>>, keyed |-> FALSE]

ToothValue(prep, num, spline) ==
    [prep |-> prep, num |-> num, center |-> Zero3, spline |-> spline]

\* a record whose spline key is missing
ToothValueNoSpline(prep, num) == [prep |-> prep, num |-> num, center |-> Zero3]

\* the annotation files of the model: mesh1 with three teeth (any flags, one
\* of the layouts), mesh2 absent or with two teeth
Mesh1Of(p, l) ==
    [ is_lower |-> FALSE,
      centers |-> [ id \in {"3", "7", "12"} |->
          CASE id = "3" -> ToothValue(p[1], 3, l.a)
            [] id = "7" -> ToothValue(p[2], 7, l.b)
            [] id = "12" -> IF l.keyed THEN ToothValue(p[3], 12, l.c)
                            ELSE ToothValueNoSpline(p[3], 12) ] ]

Mesh2Of ==
    [ is_lower |-> TRUE,
      centers |-> [ id \in {"3", "8"} |->
          IF id = "3" THEN ToothValue(1, 3, SquareY)
                      ELSE ToothValue(0, 8, Triangle) ] ]

\* the uploaded files: the defect flags of mesh1's teeth "3", "7", "12", the
\* layout of their loops, and whether the file has a mesh2
Uploads ==
    { [mesh1 |-> Mesh1Of(<<1, 1, 0>>, LayoutPlanes)],
      [mesh1 |-> Mesh1Of(<<1, 1, 0>>, LayoutDegenerate)],
      [mesh1 |-> Mesh1Of(<<1, 0, 0>>, LayoutPlanes), mesh2 |-> Mesh2Of] }

\* the texts a user may leave in a number field
TypedValues == { <<>>, <<"9">>, <<"1", "7">>, <<"9", "a">> }

\* pointer rays: straight down the z axis and along the y axis over a grid,
\* and one family parallel to the z = 0 plane
Axis == -1..GridMax

Rays ==
    { [origin |-> <<x, y, 4>>, direction |-> <<0, 0, -1>>] : x \in Axis, y \in Axis }
    \cup { [origin |-> <<x, 4, z>>, direction |-> <<0, -1, 0>>] : x \in Axis, z \in Axis }
    \cup { [origin |-> <<x, 1, 0>>, direction |-> <<1, 0, 0>>] : x \in Axis }

\* the pointer rays of the viewer's clicks
ClickRays ==
    { [origin |-> <<x, x, 4>>, direction |-> <<0, 0, -1>>] : x \in Axis }
    \cup { [origin |-> <<1, 4, 1>>, direction |-> <<0, -1, 0>>],
           [origin |-> <<0, 1, 0>>, direction |-> <<1, 0, 0>>] }

\* camera.near and camera.far handed to the raycaster
CameraNear == 1

CameraFar == 100

\* ------------------------------------------------------------ viewer page

MeshKey(side) == IF side = "A" THEN "mesh1" ELSE "mesh2"

\* JSON.parse: one fresh record object per tooth, one document object per mesh
HasMesh2(text) == "mesh2" \in DOMAIN text

ParsedRecs(text) ==
    LET k1 == Keys(text.mesh1.centers)
        k2 == IF ~HasMesh2(text) THEN <<>> ELSE Keys(text.mesh2.centers)
    IN  [ r \in 1..(Len(k1) + Len(k2)) |->
            IF r <= Len(k1) THEN text.mesh1.centers[k1[r]]
            ELSE text.mesh2.centers[k2[r - Len(k1)]] ]

ParsedDocs(text) ==
    LET k1 == Keys(text.mesh1.centers)
        k2 == IF ~HasMesh2(text) THEN <<>> ELSE Keys(text.mesh2.centers)
        d1 == [ is_lower |-> text.mesh1.is_lower,
                centers |-> [ id \in Range(k1) |->
                                CHOOSE r \in 1..Len(k1) : k1[r] = id ] ]
    IN  IF ~HasMesh2(text) THEN <<d1>>
        ELSE << d1,
                [ is_lower |-> text.mesh2.is_lower,
                  centers |-> [ id \in Range(k2) |->
                                  Len(k1) + (CHOOSE r \in 1..Len(k2) : k2[r] = id) ] ] >>

\* entriesOf(mesh): the ids of the teeth the accordion lists
IdsOf(side) ==
    IF meshLocal[side] = NullRef THEN {} ELSE DOMAIN docs[meshLocal[side]].centers

ToothOf(side, id) == recs[docs[meshLocal[side]].centers[id]]

Selected(side, id) == Includes(activeIds[side], id)

\* prev.includes(id) ? prev.filter((x) => x !== id) : [...prev, id]
\* the toggle that appends without looking for the id
toggleId_AppendOnly(prev, id) == Append(prev, id)

toggleId(prev, id) ==
    IF Includes(prev, id) THEN SelectSeq(prev, LAMBDA x : x # id)
    ELSE Append(prev, id)

\* the write with the defect flag cleared along with the renumbering
changeNumWrite_ClearsPrep(heap, centers, id, newNum) ==
    IF id \in DOMAIN centers
    THEN [heap EXCEPT ![centers[id]] = [@ EXCEPT !.num = newNum, !.prep = 0]]
    ELSE heap

\* the write made on every record of the centers map
changeNumWrite_EveryRecord(heap, centers, id, newNum) ==
    [ r \in DOMAIN heap |->
        IF \E k \in DOMAIN centers : centers[k] = r
        THEN [heap[r] EXCEPT !.num = newNum]
        ELSE heap[r] ]

\* the write changeNumA / changeNumB makes through next.centers[id]
changeNumWrite(heap, centers, id, newNum) ==
    IF id \in DOMAIN centers
    THEN [heap EXCEPT ![centers[id]] = [@ EXCEPT !.num = newNum]]
    ELSE heap

\* next = { ...prev, centers: { ...prev.centers } }
SpreadCopy(prev) == [is_lower |-> prev.is_lower, centers |-> prev.centers]

\* the update that writes through prev and returns prev itself, so that no
\* new snapshot is set and nothing re-renders
changeNum_InPlace(side, id, newNum) ==
    IF meshLocal[side] = NullRef
    THEN UNCHANGED <<recs, docs, meshLocal, pending>>
    ELSE /\ recs' = changeNumWrite(recs, docs[meshLocal[side]].centers, id, newNum)
         /\ UNCHANGED <<docs, meshLocal, pending>>

\* changeNumA / changeNumB: the state update and the render it causes
changeNum(side, id, newNum) ==
    IF meshLocal[side] = NullRef
    THEN UNCHANGED <<recs, docs, meshLocal, pending>>
    ELSE LET prev == docs[meshLocal[side]]
             next == SpreadCopy(prev)
         IN  /\ recs' = changeNumWrite(recs, next.centers, id, newNum)
             /\ docs' = Append(docs, next)
             /\ meshLocal' = [meshLocal EXCEPT ![side] = Len(docs) + 1]
             /\ pending' = pending \cup {<<"pickers", side>>}

RequiredMessage == "Required (1-16)"

RangeMessage == "Must be 1-16"

\* handleBlur with the upper limit off by one: n > 17
handleBlur_UpperLimitOff(selected, raw, currentNum) ==
    IF ~selected THEN [kind |-> "ignored", message |-> NULL, num |-> currentNum]
    ELSE IF Len(Trim(raw)) = 0
    THEN [kind |-> "error", message |-> RequiredMessage, num |-> currentNum]
    ELSE LET n == NumberOf(raw) IN
         IF ~n.finite \/ n.value < 1 \/ n.value > 17
         THEN [kind |-> "error", message |-> RangeMessage, num |-> currentNum]
         ELSE IF n.value # currentNum
         THEN [kind |-> "commit", message |-> NULL, num |-> n.value]
         ELSE [kind |-> "same", message |-> NULL, num |-> currentNum]

\* handleBlur without its first line, validating whether or not the tooth
\* is selected
handleBlur_Unselected(selected, raw, currentNum) ==
    IF Len(Trim(raw)) = 0
    THEN [kind |-> "error", message |-> RequiredMessage, num |-> currentNum]
    ELSE LET n == NumberOf(raw) IN
         IF ~n.finite \/ n.value < 1 \/ n.value > 16
         THEN [kind |-> "error", message |-> RangeMessage, num |-> currentNum]
         ELSE IF n.value # currentNum
         THEN [kind |-> "commit", message |-> NULL, num |-> n.value]
         ELSE [kind |-> "same", message |-> NULL, num |-> currentNum]

\* handleBlur(id, selected, currentNum) on the draft raw: what it decides
handleBlur(selected, raw, currentNum) ==
    IF ~selected THEN [kind |-> "ignored", message |-> NULL, num |-> currentNum]
    ELSE IF Len(Trim(raw)) = 0
    THEN [kind |-> "error", message |-> RequiredMessage, num |-> currentNum]
    ELSE LET n == NumberOf(raw) IN
         IF ~n.finite \/ n.value < 1 \/ n.value > 16
         THEN [kind |-> "error", message |-> RangeMessage, num |-> currentNum]
         ELSE IF n.value # currentNum
         THEN [kind |-> "commit", message |-> NULL, num |-> n.value]
         ELSE [kind |-> "same", message |-> NULL, num |-> currentNum]

\* handleChange accepts the text: val === "" || /^[0-9]+$/.test(val)
AcceptsText(val) == Len(val) = 0 \/ AllDigits(val)

RECURSIVE IntersectFrom(_, _, _)
\* the intersects list after raycast has run on objects[k..]
IntersectFrom(objects, k, rc) ==
    IF k = 0 THEN <<>>
    ELSE raycast(objects[k], rc, IntersectFrom(objects, k - 1, rc))

RECURSIVE InsertByDistance(_, _)
InsertByDistance(sorted, h) ==
    IF Len(sorted) = 0 THEN <<h>>
    ELSE IF sorted[Len(sorted)].distance <= h.distance THEN Append(sorted, h)
    ELSE Append(InsertByDistance(SubSeq(sorted, 1, Len(sorted) - 1), h),
                sorted[Len(sorted)])

RECURSIVE SortByDistance(_, _)
\* intersects.sort((a, b) => a.distance - b.distance), a stable sort
SortByDistance(hits, k) ==
    IF k = 0 THEN <<>>
    ELSE InsertByDistance(SortByDistance(hits, k - 1), hits[k])

\* intersectObjects without its final sort
intersectObjects_Unsorted(objects, rc) == IntersectFrom(objects, Len(objects), rc)

\* Raycaster.intersectObjects(objects, false)
intersectObjects(objects, rc) ==
    LET hits == IntersectFrom(objects, Len(objects), rc)
    IN  SortByDistance(hits, Len(hits))

\* handleMeshClickA / handleMeshClickB: the Selection Set afterwards
handleMeshClick(children, ray, prev) ==
    LET rc == [ray |-> ray, near |-> CameraNear, far |-> CameraFar]
        hits == intersectObjects(children, rc)
    IN  IF Len(hits) > 0 /\ hits[1].object.userData.toothId # NULL
        THEN toggleId(prev, hits[1].object.userData.toothId)
        ELSE prev

\* The viewer just after its first render for an uploaded file: the editable
\* copies are the parsed documents themselves, nothing is selected, the picker
\* groups are not yet attached and the drafts show the loaded numbers.
InitViewer(text) ==
    /\ upload = text
    /\ recs = ParsedRecs(text)
    /\ docs = ParsedDocs(text)
    /\ jsonData = [mesh1 |-> 1, mesh2 |-> IF HasMesh2(text) THEN 2 ELSE NullRef]
    /\ meshLocal = [s \in Sides |-> jsonData[MeshKey(s)]]
    /\ activeIds = [s \in Sides |-> <<>>]
    /\ show = [s \in Sides |-> TRUE]
    /\ showAllSplines = [s \in Sides |-> FALSE]
    /\ pickersReady = [s \in Sides |-> FALSE]
    /\ pickers = [s \in Sides |-> <<>>]
    /\ pending = {<<"attach", s>> : s \in Sides}
    /\ drafts = [s \in Sides |->
                   IF MeshKey(s) \notin DOMAIN text THEN <<>>
                   ELSE [id \in DOMAIN text[MeshKey(s)].centers |->
                           StringOf(text[MeshKey(s)].centers[id].num)]]
    /\ errors = [s \in Sides |->
                   IF MeshKey(s) \notin DOMAIN text THEN <<>>
                   ELSE [id \in DOMAIN text[MeshKey(s)].centers |-> NULL]]
    /\ nTyped = 0
    /\ route = "viewer"
    /\ handoff = None

Init ==
    /\ \E text \in Uploads : InitViewer(text)
    /\ probe = None

\* an event handler runs only after the effects of the last render have run
Idle == route = "viewer" /\ pending = {}

\* setPickersA / setPickersB: the canvas attaches the picker group
SetPickers(side) ==
    /\ <<"attach", side>> \in pending
    /\ pickersReady' = [pickersReady EXCEPT ![side] = TRUE]
    /\ pending' = (pending \ {<<"attach", side>>}) \cup {<<"pickers", side>>}
    /\ UNCHANGED <<recs, docs, jsonData, meshLocal, activeIds, show,
                   pickers, drafts, errors, nTyped, upload, route,
                   handoff, showAllSplines, probe>>

\* the effect without pickersRef.current.clear(): the new regions are added
\* to the ones already in the group
RebuildPickers_NoClear(side) ==
    /\ <<"pickers", side>> \in pending
    /\ pending' = pending \ {<<"pickers", side>>}
    /\ pickers' =
         IF meshLocal[side] = NullRef \/ ~pickersReady[side] THEN pickers
         ELSE [pickers EXCEPT ![side] =
                 @ \o buildToothPickersById(docs[meshLocal[side]], recs, EdgeBufferDefault)]
    /\ UNCHANGED <<recs, docs, jsonData, meshLocal, activeIds, show,
                   pickersReady, drafts, errors, nTyped, upload, route,
                   handoff, showAllSplines, probe>>

\* the "Build pickers on JSON change" effect
RebuildPickers(side) ==
    /\ <<"pickers", side>> \in pending
    /\ pending' = pending \ {<<"pickers", side>>}
    /\ pickers' =
         IF meshLocal[side] = NullRef \/ ~pickersReady[side] THEN pickers
         ELSE [pickers EXCEPT ![side] =
                 buildToothPickersById(docs[meshLocal[side]], recs, EdgeBufferDefault)]
    /\ UNCHANGED <<recs, docs, jsonData, meshLocal, activeIds, show,
                   pickersReady, drafts, errors, nTyped, upload, route,
                   handoff, showAllSplines, probe>>

\* the accordion's tooth button: if (t.prep === 1) onToggleToothId(id)
ListClick(side, id) ==
    /\ Idle
    /\ id \in IdsOf(side)
    /\ activeIds' =
         IF ToothOf(side, id).prep = 1
         THEN [activeIds EXCEPT ![side] = toggleId(@, id)]
         ELSE activeIds
    /\ UNCHANGED <<recs, docs, jsonData, meshLocal, show, pickersReady,
                   pickers, pending, drafts, errors, nTyped, upload,
                   route, handoff, showAllSplines, probe>>

\* the marker sphere of Annotations, rendered while the mesh is shown
MarkerClick(side, id) ==
    /\ Idle
    /\ show[side]
    /\ id \in IdsOf(side)
    /\ activeIds' =
         IF ToothOf(side, id).prep = 1
         THEN [activeIds EXCEPT ![side] = toggleId(@, id)]
         ELSE activeIds
    /\ UNCHANGED <<recs, docs, jsonData, meshLocal, show, pickersReady,
                   pickers, pending, drafts, errors, nTyped, upload,
                   route, handoff, showAllSplines, probe>>

\* a click on the mesh group with pointer ray ray
Pick(side, ray) ==
    /\ Idle
    /\ pickersReady[side]
    /\ activeIds' = [activeIds EXCEPT ![side] =
                       handleMeshClick(pickers[side], ray, @)]
    /\ UNCHANGED <<recs, docs, jsonData, meshLocal, show, pickersReady,
                   pickers, pending, drafts, errors, nTyped, upload,
                   route, handoff, showAllSplines, probe>>

\* handleChange(id, val, selected) on the number field of a selected tooth
\* (the field is disabled otherwise)
HandleChange(side, id, val) ==
    /\ Idle
    /\ id \in IdsOf(side)
    /\ Selected(side, id)
    /\ nTyped < MaxTyping
    /\ nTyped' = nTyped + 1
    /\ IF AcceptsText(val)
       THEN /\ drafts' = [drafts EXCEPT ![side][id] = val]
            /\ errors' = [errors EXCEPT ![side][id] = NULL]
       ELSE UNCHANGED <<drafts, errors>>
    /\ UNCHANGED <<recs, docs, jsonData, meshLocal, activeIds, show,
                   pickersReady, pickers, pending, upload, route, handoff,
                   showAllSplines, probe>>

\* a number field loses the focus: handleBlur(id, selected, t.num)
Blur(side, id) ==
    /\ Idle
    /\ id \in IdsOf(side)
    /\ LET out == handleBlur(Selected(side, id), drafts[side][id],
                             ToothOf(side, id).num)
       IN  CASE out.kind = "error" ->
                  /\ errors' = [errors EXCEPT ![side][id] = out.message]
                  /\ UNCHANGED <<recs, docs, meshLocal, pending>>
             [] out.kind = "commit" ->
                  /\ changeNum(side, id, out.num)
                  /\ UNCHANGED errors
             [] OTHER ->
                  UNCHANGED <<recs, docs, meshLocal, pending, errors>>
    /\ UNCHANGED <<jsonData, activeIds, show, pickersReady, pickers,
                   drafts, nTyped, upload, route, handoff, showAllSplines, probe>>

\* the switch handler clearing the selection itself
SetShow_ClearsSelection(side, v) ==
    /\ Idle
    /\ v # show[side]
    /\ show' = [show EXCEPT ![side] = v]
    /\ activeIds' = [activeIds EXCEPT ![side] = <<>>]
    /\ pending' = pending \cup {<<"hide", side>>}
    /\ UNCHANGED <<recs, docs, jsonData, meshLocal,
                   pickersReady, pickers, drafts, errors, nTyped, upload,
                   route, handoff, showAllSplines, probe>>

\* the Show Mesh A / Show Mesh B switch
SetShow(side, v) ==
    /\ Idle
    /\ v # show[side]
    /\ show' = [show EXCEPT ![side] = v]
    /\ pending' = pending \cup {<<"hide", side>>}
    /\ UNCHANGED <<recs, docs, jsonData, meshLocal, activeIds,
                   pickersReady, pickers, drafts, errors, nTyped, upload,
                   route, handoff, showAllSplines, probe>>

\* the "Clear selections when hiding a mesh" effect
HideEffect(side) ==
    /\ <<"hide", side>> \in pending
    /\ pending' = pending \ {<<"hide", side>>}
    /\ IF ~show[side]
       THEN /\ activeIds' = [activeIds EXCEPT ![side] = <<>>]
            /\ showAllSplines' = [showAllSplines EXCEPT ![side] = FALSE]
       ELSE UNCHANGED <<activeIds, showAllSplines>>
    /\ UNCHANGED <<recs, docs, jsonData, meshLocal, show, pickersReady, pickers,
                   drafts, errors, nTyped, upload, route, handoff, probe>>

\* the "Show ALL splines (Mesh A)" / "(Mesh B)" switch
SetShowAllSplines(side, v) ==
    /\ Idle
    /\ v # showAllSplines[side]
    /\ showAllSplines' = [showAllSplines EXCEPT ![side] = v]
    /\ UNCHANGED <<recs, docs, jsonData, meshLocal, activeIds, show, pickersReady,
                   pickers, pending, drafts, errors, nTyped, upload, route,
                   handoff, probe>>

\* handleSaveContinue: navigate("/review", { state })
SaveContinue ==
    /\ Idle
    /\ route' = "review"
    /\ handoff' = Some([ mesh1 |-> meshLocal["A"], mesh2 |-> meshLocal["B"],
                         selectedIdsA |-> activeIds["A"],
                         selectedIdsB |-> activeIds["B"] ])
    /\ UNCHANGED <<recs, docs, jsonData, meshLocal, activeIds, show,
                   pickersReady, pickers, pending, drafts, errors,
                   nTyped, upload, showAllSplines, probe>>

Next ==
    \/ \E side \in Sides : SetPickers(side)
    \/ \E side \in Sides : RebuildPickers(side)
    \/ \E side \in Sides, id \in Range(KeyOrder) : ListClick(side, id)
    \/ \E side \in Sides, id \in Range(KeyOrder) : MarkerClick(side, id)
    \/ \E side \in Sides, ray \in ClickRays : Pick(side, ray)
    \/ \E side \in Sides, id \in Range(KeyOrder), val \in TypedValues :
            HandleChange(side, id, val)
    \/ \E side \in Sides, id \in Range(KeyOrder) : Blur(side, id)
    \/ \E side \in Sides, v \in BOOLEAN : SetShow(side, v)
    \/ \E side \in Sides : HideEffect(side)
    \/ \E side \in Sides, v \in BOOLEAN : SetShowAllSplines(side, v)
    \/ SaveContinue

Spec == Init /\ [][Next]_vars

\* ------------------------------------------------------ sleeve geometry

\* the half-turn of Math.atan2(p.y, p.x) in (-pi, pi]: below the x axis, on
\* its positive side (and the origin), above it, on its negative side
AngleBand(p) ==
    IF p[2] < 0 THEN 0
    ELSE IF p[2] = 0 /\ p[1] >= 0 THEN 1
    ELSE IF p[2] > 0 THEN 2
    ELSE 3

\* A.a - B.a < 0 for the angles of a and b around the origin; never true when
\* a coordinate is NaN
AngleLess(a, b) ==
    /\ ~HasNaN2(a) /\ ~HasNaN2(b)
    /\ \/ AngleBand(a) < AngleBand(b)
       \/ /\ AngleBand(a) = AngleBand(b)
          /\ a[1] * b[2] - a[2] * b[1] > 0

RECURSIVE InsertByAngle(_, _, _)
InsertByAngle(sorted, p, c) ==
    IF Len(sorted) = 0 THEN <<p>>
    ELSE LET last == sorted[Len(sorted)] IN
         IF AngleLess(<<p[1] - c[1], p[2] - c[2]>>, <<last[1] - c[1], last[2] - c[2]>>)
         THEN Append(InsertByAngle(SubSeq(sorted, 1, Len(sorted) - 1), p, c), last)
         ELSE Append(sorted, p)

RECURSIVE SortByAngle(_, _, _)
\* pts2.map(atan2 around c2).sort((A, B) => A.a - B.a), a stable sort
SortByAngle(pts2, k, c) ==
    IF k = 0 THEN <<>>
    ELSE InsertByAngle(SortByAngle(pts2, k - 1, c), pts2[k], c)

RECURSIVE Sum2(_, _)
Sum2(pts2, k) ==
    IF k = 0 THEN <<0, 0>>
    ELSE LET r == Sum2(pts2, k - 1) IN <<r[1] + pts2[k][1], r[2] + pts2[k][2]>>

\* one point of the inner loop: c2 + dir * max(0, 1 - wall / len), the factor
\* kept as its parts (len is a square root); collapsed says the factor is 0
InnerPoint(p, c2, wall) ==
    IF HasNaN2(p) \/ HasNaN2(c2)
    THEN [from |-> c2, dir |-> <<NaN, NaN>>, lenSq |-> NaN, wall |-> wall, collapsed |-> TRUE]
    ELSE LET dir == <<p[1] - c2[1], p[2] - c2[2]>>
             lenSq == dir[1] * dir[1] + dir[2] * dir[2]
         IN  [ from |-> c2, dir |-> dir, lenSq |-> lenSq, wall |-> wall,
               collapsed |-> wall.n * wall.n >= lenSq * wall.d * wall.d ]

Reverse(s) == [i \in 1..Len(s) |-> s[Len(s) + 1 - i]]

\* pts3 projected to the 2D plane through toLocal
ProjectTo2D(pts3, toLocal) ==
    [ i \in 1..Len(pts3) |->
        << ApplyMatrix4(pts3[i], toLocal)[1], ApplyMatrix4(pts3[i], toLocal)[2] >> ]

\* c2: the mean of pts2
Centre2(pts2) ==
    IF HasNaN2(pts2[1]) THEN <<NaN, NaN>>
    ELSE << Sum2(pts2, Len(pts2))[1] \div Len(pts2),
            Sum2(pts2, Len(pts2))[2] \div Len(pts2) >>

\* the shape with its hole, extruded by height
ExtrudedShape(outer, c2, wall, height) ==
    [ outer |-> outer,
      hole |-> Reverse([i \in 1..Len(outer) |-> InnerPoint(outer[i], c2, wall)]),
      depth |-> height ]

\* the memo once the frame of the loop is known
SleeveOnBasis(spline, basis, wall, height) ==
    LET pts2 == ProjectTo2D(spline, basis.toLocal)
    IN  [ geom |-> Some(ExtrudedShape(SortByAngle(pts2, Len(pts2), Centre2(pts2)),
                                      Centre2(pts2), wall, height)),
          matrix |-> basis.toWorld ]

\* the sleeve with the guard one too low: pts3.length < 2
HollowSleeveOnSpline_TwoPoints(spline, wall, height) ==
    IF Len(spline) < 2
    THEN [geom |-> None, matrix |-> MakeBasisAt(<<1, 0, 0>>, <<0, 1, 0>>, <<0, 0, 1>>, Zero3)]
    ELSE SleeveOnBasis(spline,
                       buildBasis(newellPlane(spline).normal, newellPlane(spline).origin),
                       wall, height)

\* the useMemo of HollowSleeveOnSpline: the extruded shape is kept as its
\* outer loop, its hole and its depth; geom is None for fewer than 3 points
HollowSleeveOnSpline(spline, wall, height) ==
    IF Len(spline) < 3
    THEN [geom |-> None, matrix |-> MakeBasisAt(<<1, 0, 0>>, <<0, 1, 0>>, <<0, 0, 1>>, Zero3)]
    ELSE SleeveOnBasis(spline,
                       buildBasis(newellPlane(spline).normal, newellPlane(spline).origin),
                       wall, height)

\* ------------------------------------------- the geometry functions on their own

\* the boundary loops handed to the geometry functions
\* the square (0,0,0), (2,0,0), (2,2,0), (0,2,0) in units of 0.05
FineSquare == << <<0, 0, 0>>, <<40, 0, 0>>, <<40, 40, 0>>, <<0, 40, 0>> >>

Loops ==
    { <<>>, << <<1, 1, 0>> >>, TwoPoints, Collinear, Square, Triangle, LShape, SquareY,
      << <<0, 2, 0>>, <<2, 2, 0>>, <<2, 0, 0>>, <<0, 0, 0>> >>, FineSquare }

\* rays onto the plane of FineSquare at (1,1,0), (1,-0.05,0) and (1,-1,0), in
\* units of 0.05
FineRays ==
    { [origin |-> <<20, y, 4>>, direction |-> <<0, 0, -1>>] : y \in {20, -1, -20} }

EdgeBuffers == 0..2

\* the sleeve's wall 0.8 and height 3.0
SleeveWall == [n |-> 4, d |-> 5]

SleeveHeight == 3

\* a document with the single defective tooth "3" carrying spline
OneToothDoc == [is_lower |-> FALSE, centers |-> [id \in {"3"} |-> 1]]

OneToothHeap(spline) == <<ToothValue(1, 3, spline)>>

ViewerVars == <<recs, docs, jsonData, meshLocal, activeIds, show, pickersReady,
                pickers, pending, drafts, errors, nTyped, upload, route, handoff,
                showAllSplines>>

\* the geometry functions are exercised beside a viewer that has just loaded
\* the first upload and is left alone
GeomInit ==
    /\ InitViewer([mesh1 |-> Mesh1Of(<<1, 1, 0>>, LayoutPlanes)])
    /\ \E spline \in Loops, b \in EdgeBuffers :
         probe = [ spline |-> spline, edgeBuffer |-> b,
                   registry |-> None, sleeve |-> None, cast |-> None ]

\* buildToothPickersById on the document whose one defective tooth carries
\* the loop
BuildRegistry ==
    /\ probe.registry = None
    /\ probe' = [probe EXCEPT !.registry =
                   Some(buildToothPickersById(OneToothDoc, OneToothHeap(probe.spline),
                                              probe.edgeBuffer))]
    /\ UNCHANGED ViewerVars

\* the sleeve of the loop
BuildSleeve ==
    /\ probe.sleeve = None
    /\ probe' = [probe EXCEPT !.sleeve =
                   Some(HollowSleeveOnSpline(probe.spline, SleeveWall, SleeveHeight))]
    /\ UNCHANGED ViewerVars

\* raycaster.near: the camera's near distance, or the 0 a Raycaster starts with
Nears == {0, CameraNear}

\* the intersects list handed to raycast: empty, or holding the hit of a
\* region tested before
PriorIntersects ==
    { <<>>,
      << [ object |-> NewToothPicker(7, Triangle, EdgeBufferDefault),
           distance |-> 3, point |-> <<1, 1, 1>> ] >> }

\* picker.raycast(rc, before) on the loop's region
Raycast(ray, near, before) ==
    /\ probe.registry # None
    /\ Len(probe.registry[1]) > 0
    /\ probe.cast = None
    /\ probe' = [probe EXCEPT !.cast =
                   Some([ ray |-> ray, near |-> near, before |-> before,
                          intersects |->
                            raycast(probe.registry[1][1],
                                    [ray |-> ray, near |-> near, far |-> CameraFar],
                                    before) ])]
    /\ UNCHANGED ViewerVars

GeomNext ==
    \/ BuildRegistry
    \/ BuildSleeve
    \/ \E ray \in Rays \cup FineRays, near \in Nears, before \in PriorIntersects :
         Raycast(ray, near, before)

GeomSpec == GeomInit /\ [][GeomNext]_vars

\* ------------------------------------------------ the classifier on its own

PolyCoords == { 2 * i : i \in 0..PolyMax }

PolyVertices == { <<x, y>> : x \in PolyCoords, y \in {0, 2, 4} }

Cross2(a, b, c) == (b[1] - a[1]) * (c[2] - a[2]) - (b[2] - a[2]) * (c[1] - a[1])

\* every turn of the closed loop is a strict turn to the same hand
StrictlyConvex(poly) ==
    LET n == Len(poly)
        turn(k) == Cross2(poly[k], poly[(k % n) + 1], poly[((k + 1) % n) + 1])
    IN  \/ \A k \in 1..n : turn(k) > 0
        \/ \A k \in 1..n : turn(k) < 0

Rotations(s) == { [i \in 1..Len(s) |-> s[((i + k - 1) % Len(s)) + 1]] : k \in 0..(Len(s) - 1) }

Octagon == << <<1, 0>>, <<3, 0>>, <<4, 1>>, <<4, 3>>, <<3, 4>>, <<1, 4>>, <<0, 3>>, <<0, 1>> >>

\* the polygons handed to pointInPolygon2D: every strictly convex triangle and
\* quadrilateral on the grid, from every starting vertex and in both winding
\* orders, and an octagon likewise
ConvexPolygons ==
    { t \in { <<a, b, c>> : a \in PolyVertices, b \in PolyVertices, c \in PolyVertices } :
        StrictlyConvex(t) }
    \cup { q \in { <<a, b, c, d>> : a \in PolyVertices, b \in PolyVertices,
                                   c \in PolyVertices, d \in PolyVertices } :
             StrictlyConvex(q) }
    \cup Rotations(Octagon)
    \cup Rotations([i \in 1..Len(Octagon) |-> Octagon[Len(Octagon) + 1 - i]])

\* the points classified: the grid points inside the bounding box of the
\* vertices
TestPoints == { <<x, y>> : x \in 1..(2 * PolyMax - 1), y \in 1..3 }

ClassifierInit ==
    /\ InitViewer([mesh1 |-> Mesh1Of(<<1, 1, 0>>, LayoutPlanes)])
    /\ \E poly \in ConvexPolygons :
         probe = [poly |-> poly, point |-> None, inside |-> None]

\* pointInPolygon2D(p, poly)
Classify(p) ==
    /\ probe' = [probe EXCEPT !.point = Some(p),
                              !.inside = Some(pointInPolygon2D(p, probe.poly))]
    /\ UNCHANGED ViewerVars

ClassifierNext == \E p \in TestPoints : Classify(p)

ClassifierSpec == ClassifierInit /\ [][ClassifierNext]_vars

\* ---------------------------------------------- the click handler on its own

\* the loops of the three defective teeth of a picked mesh
PickLoops == {Square, Triangle, LShape, SquareY}

\* the registries of the model: every assignment of the loops to the teeth
\* "3", "7", "12", all defective
PickRegistries ==
    { buildToothPickersById(
          [is_lower |-> FALSE, centers |-> ("3" :> 1 @@ "7" :> 2 @@ "12" :> 3)],
          <<ToothValue(1, 3, a), ToothValue(1, 7, b), ToothValue(1, 12, c)>>,
          EdgeBufferDefault) : a \in PickLoops, b \in PickLoops, c \in PickLoops }

\* the Selection Set before the click
PriorSelections == { <<>>, <<"7">>, <<"12", "3">> }

PickInit ==
    /\ InitViewer([mesh1 |-> Mesh1Of(<<1, 1, 0>>, LayoutPlanes)])
    /\ \E children \in PickRegistries, prev \in PriorSelections :
         probe = [children |-> children, prev |-> prev, click |-> None]

\* handleMeshClickA / handleMeshClickB on the registry, with the updater
\* applied to the Selection Set
Click(ray) ==
    /\ probe.click = None
    /\ probe' = [probe EXCEPT !.click =
                   Some([ray |-> ray,
                         next |-> handleMeshClick(probe.children, ray, probe.prev)])]
    /\ UNCHANGED ViewerVars

PickNext == \E ray \in ClickRays : Click(ray)

PickSpec == PickInit /\ [][PickNext]_vars

\* ------------------------------------------------ the plane fitter on its own

GridPairs == { <<x, y>> : x \in 0..LoopMax, y \in 0..LoopMax }

\* a grid pair placed in the plane z = 0, y = 1 or x = 1
InPlane(axis, q) ==
    CASE axis = 3 -> <<q[1], q[2], 0>>
      [] axis = 2 -> <<q[1], 1, q[2]>>
      [] axis = 1 -> <<1, q[1], q[2]>>

BowTie == << <<0, 0, 0>>, <<2, 2, 0>>, <<2, 0, 0>>, <<0, 2, 0>> >>

\* the loops handed to newellPlane: every three grid points of a coordinate
\* plane, in every order and repeated points included, and the longer loops
\* of the model
FitLoops ==
    { <<InPlane(axis, a), InPlane(axis, b), InPlane(axis, c)>> :
          axis \in 1..3, a \in GridPairs, b \in GridPairs, c \in GridPairs }
    \cup { Square, LShape, SquareY, FineSquare, BowTie,
           << <<0, 0, 0>>, <<1, 0, 0>>, <<2, 0, 0>>, <<3, 0, 0>> >> }

\* the orders in which a loop's points are handed over: as given, reversed,
\* or starting k points later
Orders(points) ==
    { [kind |-> "given", k |-> 0], [kind |-> "reversed", k |-> 0] }
    \cup { [kind |-> "rotated", k |-> k] : k \in 1..(Len(points) - 1) }

Arranged(points, order) ==
    CASE order.kind = "given" -> points
      [] order.kind = "reversed" -> [i \in 1..Len(points) |-> points[Len(points) + 1 - i]]
      [] order.kind = "rotated" ->
            [i \in 1..Len(points) |-> points[((i + order.k - 1) % Len(points)) + 1]]

FitInit ==
    /\ InitViewer([mesh1 |-> Mesh1Of(<<1, 1, 0>>, LayoutPlanes)])
    /\ \E points \in FitLoops : probe = [points |-> points, fit |-> None]

\* newellPlane on the loop in one of its orders; acc is n before n.normalize()
\* and sum is (cx, cy, cz)
Fit(order) ==
    /\ probe.fit = None
    /\ probe' = [probe EXCEPT !.fit =
                   Some([ order |-> order,
                          acc |-> NewellAcc(Arranged(probe.points, order), Len(probe.points)),
                          sum |-> SumPoints(Arranged(probe.points, order), Len(probe.points)),
                          plane |-> newellPlane(Arranged(probe.points, order)) ])]
    /\ UNCHANGED ViewerVars

FitNext == \E order \in Orders(probe.points) : Fit(order)

FitSpec == FitInit /\ [][FitNext]_vars

\* ------------------------------------------------ the local frame on its own

AxisVectors == { <<1, 0, 0>>, <<0, 1, 0>>, <<0, 0, 1>> }

\* the normals handed to buildBasis: along each axis in both directions, of
\* length up to NormalMax, and the zero vector
FrameNormals ==
    { Scale3(e, k) : e \in AxisVectors, k \in (0 - NormalMax)..NormalMax }

FrameOrigins == { <<x, y, z>> : x \in 0..1, y \in 0..1, z \in 0..1 }

WorldPoints == { <<x, y, z>> : x \in Axis, y \in Axis, z \in Axis }

FrameInit ==
    /\ InitViewer([mesh1 |-> Mesh1Of(<<1, 1, 0>>, LayoutPlanes)])
    /\ \E normal \in FrameNormals, origin \in FrameOrigins :
         probe = [normal |-> normal, origin |-> origin, frame |-> None, trip |-> None]

\* buildBasis(normal, origin)
BuildFrame ==
    /\ probe.frame = None
    /\ probe' = [probe EXCEPT !.frame = Some(buildBasis(probe.normal, probe.origin))]
    /\ UNCHANGED ViewerVars

\* a world point projected to the frame's 2D plane as the region and the
\* sleeve project their loops (applyMatrix4(toLocal), then x and y), and the
\* 2D point placed back in the world by toWorld as the sleeve's matrix does;
\* back3 is the local point with its z kept, placed back likewise
RoundTrip(p) ==
    /\ probe.frame # None
    /\ probe.trip = None
    /\ LET lp == ApplyMatrix4(p, probe.frame[1].toLocal)
       IN  probe' = [probe EXCEPT !.trip =
                       Some([ p |-> p,
                              local |-> lp,
                              back |-> IF IsNaN(lp[1]) THEN lp
                                       ELSE ApplyMatrix4(<<lp[1], lp[2], 0>>,
                                                         probe.frame[1].toWorld),
                              back3 |-> IF IsNaN(lp[1]) THEN lp
                                        ELSE ApplyMatrix4(lp, probe.frame[1].toWorld) ])]
    /\ UNCHANGED ViewerVars

FrameNext ==
    \/ BuildFrame
    \/ \E p \in WorldPoints : RoundTrip(p)

FrameSpec == FrameInit /\ [][FrameNext]_vars

\* ------------------------------------------------ upload, viewer and review

\* JSON values: undefined (a missing key), null, an object with its keys, or
\* any other value (number, boolean, string, array)
JUndefined == [kind |-> "undefined"]

JNull == [kind |-> "null"]

JLeaf == [kind |-> "leaf"]

JObject(f) == [kind |-> "object", f |-> f]

JEmpty == JObject([k \in {} |-> JNull])

\* value?.key
Get(v, k) == IF v.kind = "object" /\ k \in DOMAIN v.f THEN v.f[k] ELSE JUndefined

\* value ?? null
OrNull(v) == IF v.kind = "undefined" THEN JNull ELSE v

\* !!value, for the values the pages test: URLs, documents, meshes, centers
Truthy(v) == v.kind \in {"object", "leaf"}

FullTooth == JObject([prep |-> JLeaf, num |-> JLeaf, center |-> JLeaf, spline |-> JLeaf])

ToothNoLoop == JObject([prep |-> JLeaf, num |-> JLeaf])

MeshWith(centers) == JObject([is_lower |-> JLeaf, centers |-> centers])

FullMesh == MeshWith(JObject([t3 |-> FullTooth, t7 |-> FullTooth]))

\* the texts of the annotation files of the model
JsonTexts ==
    { "{", "null", "3", "[]", "{}",
      "{mesh1:{}}",
      "{mesh1:{is_lower,centers:null}}",
      "{mesh1:{is_lower,centers:{3:null}}}",
      "{mesh1:{is_lower,centers:{3:{prep,num}}}}",
      "{mesh1:{centers:{3:full,7:full}}}",
      "{mesh2:full}",
      "{mesh1:full}",
      "{mesh1:full,mesh2:null}",
      "{mesh1:full,mesh2:{}}",
      "{mesh1:full,mesh2:{is_lower,centers:{3:full,7:null}}}",
      "{mesh1:full,mesh2:full}" }

\* JSON.parse(text): None when it throws
JSONParse(text) ==
    CASE text = "{" -> None
      [] text = "null" -> Some(JNull)
      [] text = "3" -> Some(JLeaf)
      [] text = "[]" -> Some(JLeaf)
      [] text = "{}" -> Some(JEmpty)
      [] text = "{mesh1:{}}" -> Some(JObject([mesh1 |-> JEmpty]))
      [] text = "{mesh1:{is_lower,centers:null}}" ->
            Some(JObject([mesh1 |-> MeshWith(JNull)]))
      [] text = "{mesh1:{is_lower,centers:{3:null}}}" ->
            Some(JObject([mesh1 |-> MeshWith(JObject([t3 |-> JNull]))]))
      [] text = "{mesh1:{is_lower,centers:{3:{prep,num}}}}" ->
            Some(JObject([mesh1 |-> MeshWith(JObject([t3 |-> ToothNoLoop]))]))
      [] text = "{mesh1:{centers:{3:full,7:full}}}" ->
            Some(JObject([mesh1 |->
                JObject([centers |-> JObject([t3 |-> FullTooth, t7 |-> FullTooth])])]))
      [] text = "{mesh2:full}" -> Some(JObject([mesh2 |-> FullMesh]))
      [] text = "{mesh1:full}" -> Some(JObject([mesh1 |-> FullMesh]))
      [] text = "{mesh1:full,mesh2:null}" ->
            Some(JObject([mesh1 |-> FullMesh, mesh2 |-> JNull]))
      [] text = "{mesh1:full,mesh2:{}}" ->
            Some(JObject([mesh1 |-> FullMesh, mesh2 |-> JEmpty]))
      [] text = "{mesh1:full,mesh2:{is_lower,centers:{3:full,7:null}}}" ->
            Some(JObject([mesh1 |-> FullMesh,
                          mesh2 |-> MeshWith(JObject([t3 |-> FullTooth, t7 |-> JNull]))]))
      [] text = "{mesh1:full,mesh2:full}" ->
            Some(JObject([mesh1 |-> FullMesh, mesh2 |-> FullMesh]))

\* location.state || {} on the viewer
ViewerStateOf(state) ==
    IF state = None
    THEN [meshAUrl |-> JUndefined, meshBUrl |-> JUndefined, jsonData |-> JUndefined]
    ELSE state[1]

\* location.state || {} on the review screen
ReviewStateOf(state) ==
    IF state = None
    THEN [meshAUrl |-> JUndefined, meshBUrl |-> JUndefined,
          mesh1 |-> JUndefined, mesh2 |-> JUndefined]
    ELSE state[1]

\* entriesOf(mesh): the tooth records listed for a mesh
EntriesOf(mesh) ==
    IF Truthy(Get(mesh, "centers")) /\ Get(mesh, "centers").kind = "object"
    THEN { Get(mesh, "centers").f[id] : id \in DOMAIN Get(mesh, "centers").f }
    ELSE {}

\* ToothAccordion, Annotations and buildToothPickersById read t.num, t.prep and
\* c.center of every listed record: a TypeError when the record is null
ReadsNullRecord(mesh) == \E t \in EntriesOf(mesh) : t.kind = "null"

\* what ViewerPage renders for a navigation state
ViewerView(state) ==
    LET s == ViewerStateOf(state)
        mesh1JSON == OrNull(Get(s.jsonData, "mesh1"))
        mesh2JSON == OrNull(Get(s.jsonData, "mesh2"))
    IN  IF ~Truthy(s.meshAUrl) \/ ~Truthy(s.meshBUrl) \/ ~Truthy(s.jsonData)
        THEN "fallback"
        ELSE IF ReadsNullRecord(mesh1JSON) \/ ReadsNullRecord(mesh2JSON)
        THEN "crashed"
        ELSE "page"

\* what ReviewPage renders for a navigation state
ReviewView(state) ==
    LET s == ReviewStateOf(state)
    IN  IF ~Truthy(s.meshAUrl) \/ ~Truthy(s.meshBUrl) \/ ~Truthy(s.mesh1) \/ ~Truthy(s.mesh2)
        THEN "fallback"
        ELSE "page"

\* navigation states that lack a URL or carry one only
StrayViewerStates ==
    { Some([meshAUrl |-> a, meshBUrl |-> b, jsonData |-> j]) :
        a \in {JUndefined, JLeaf}, b \in {JUndefined, JLeaf},
        j \in {JUndefined, JObject([mesh1 |-> FullMesh])} }

StrayReviewStates ==
    { Some([meshAUrl |-> a, meshBUrl |-> JLeaf, mesh1 |-> m1, mesh2 |-> m2]) :
        a \in {JUndefined, JLeaf}, m1 \in {JNull, FullMesh}, m2 \in {JNull, FullMesh} }

UploadForm ==
    [ screen |-> "upload", view |-> "form", meshAFile |-> FALSE, meshBFile |-> FALSE,
      jsonFile |-> None, alert |-> None, state |-> None, back |-> None ]

NavInit ==
    /\ InitViewer([mesh1 |-> Mesh1Of(<<1, 1, 0>>, LayoutPlanes)])
    /\ probe = UploadForm

\* setMeshAFile: a file chosen or removed
SetMeshAFile(chosen) ==
    /\ probe.screen = "upload"
    /\ probe' = [probe EXCEPT !.meshAFile = chosen, !.alert = None]
    /\ UNCHANGED ViewerVars

SetMeshBFile(chosen) ==
    /\ probe.screen = "upload"
    /\ probe' = [probe EXCEPT !.meshBFile = chosen, !.alert = None]
    /\ UNCHANGED ViewerVars

SetJsonFile(file) ==
    /\ probe.screen = "upload"
    /\ probe' = [probe EXCEPT !.jsonFile = file, !.alert = None]
    /\ UNCHANGED ViewerVars

\* the Reset button
ResetFiles ==
    /\ probe.screen = "upload"
    /\ probe' = UploadForm
    /\ UNCHANGED ViewerVars

\* a page entered with a navigation state
Entered(screen, state, back) ==
    [ UploadForm EXCEPT !.screen = screen, !.state = state, !.back = back,
                        !.view = CASE screen = "viewer" -> ViewerView(state)
                                   [] screen = "review" -> ReviewView(state)
                                   [] OTHER -> "form" ]

\* handleSubmit, behind the Submit button (disabled unless all three files
\* are chosen)
handleSubmit ==
    /\ probe.screen = "upload"
    /\ probe.meshAFile /\ probe.meshBFile /\ probe.jsonFile # None
    /\ probe' =
         IF ~probe.meshAFile \/ ~probe.meshBFile \/ probe.jsonFile = None
         THEN [probe EXCEPT !.alert = Some("Please upload two STL files and one JSON file.")]
         ELSE IF JSONParse(probe.jsonFile[1]) = None
         THEN [probe EXCEPT !.alert = Some("Invalid JSON file.")]
         ELSE Entered("viewer",
                      Some([ meshAUrl |-> JLeaf, meshBUrl |-> JLeaf,
                             jsonData |-> JSONParse(probe.jsonFile[1])[1] ]),
                      None)
    /\ UNCHANGED ViewerVars

\* the viewer's handleSaveContinue
handleSaveContinue ==
    /\ probe.screen = "viewer"
    /\ probe.view = "page"
    /\ LET s == ViewerStateOf(probe.state)
       IN  probe' = Entered("review",
                            Some([ meshAUrl |-> s.meshAUrl, meshBUrl |-> s.meshBUrl,
                                   mesh1 |-> OrNull(Get(s.jsonData, "mesh1")),
                                   mesh2 |-> OrNull(Get(s.jsonData, "mesh2")) ]),
                            probe.state)
    /\ UNCHANGED ViewerVars

\* navigate("/") from a fallback, the viewer's Back or the review's button
GoToUpload ==
    /\ probe.screen # "upload"
    /\ probe.view # "crashed"
    /\ probe' = UploadForm
    /\ UNCHANGED ViewerVars

\* nav(-1) on the review page: the viewer with the state it was entered with
ReviewBack ==
    /\ probe.screen = "review"
    /\ probe.view = "page"
    /\ probe' = Entered("viewer", probe.back, None)
    /\ UNCHANGED ViewerVars

\* a screen entered from outside the three pages: by its address (no state)
\* or by a history entry carrying some other state
Arrive(screen, state) ==
    /\ probe' = Entered(screen, state, None)
    /\ UNCHANGED ViewerVars

NavNext ==
    \/ \E chosen \in BOOLEAN : SetMeshAFile(chosen)
    \/ \E chosen \in BOOLEAN : SetMeshBFile(chosen)
    \/ \E file \in {None} \cup { Some(t) : t \in JsonTexts } : SetJsonFile(file)
    \/ ResetFiles
    \/ handleSubmit
    \/ handleSaveContinue
    \/ GoToUpload
    \/ ReviewBack
    \/ \E state \in {None} \cup StrayViewerStates : Arrive("viewer", state)
    \/ \E state \in {None} \cup StrayReviewStates : Arrive("review", state)

NavSpec == NavInit /\ [][NavNext]_vars


\* ------------------------------------------------------------ camera fitting
\* The viewer's canvas holds one STLObject per side and one FitOnce; each
\* fits the shared camera in an effect gated by a ref.  The state is kept in
\* probe: the urls of location.state, the geometry each mounted STLObject
\* last committed with (useLoader suspends until the url's geometry is
\* there), the refs didFit and did, whether the target groups have a
\* non-empty bounding box, the viewport size, the camera, whether
\* controlsRef.current is set, the effects queued by the last commit, the
\* last fit written to the camera, and the number of fits each component
\* has executed since its resource last changed: for an STLObject since it
\* committed with another url's geometry, for FitOnce since the page
\* rendered with another mesh url.
FitCap == 2

Urls == {"blob:1", "blob:2"}

Fitters == Sides \cup {"FitOnce"}

Cameras == {"perspective", "orthographic"}

Viewports == {1, 2}

Counted(n) == Min2(n + 1, FitCap)

CameraInit ==
    /\ InitViewer([mesh1 |-> Mesh1Of(<<1, 1, 0>>, LayoutPlanes)])
    /\ \E ua \in Urls, ub \in Urls :
          probe = [ url |-> [s \in Sides |-> IF s = "A" THEN ua ELSE ub],
                    geometry |-> [s \in Sides |-> NULL],
                    didFit |-> [s \in Sides |-> NULL],
                    did |-> FALSE,
                    hasAny |-> FALSE,
                    size |-> 1,
                    camera |-> "perspective",
                    controls |-> FALSE,
                    effects |-> {"FitOnce"},
                    view |-> [by |-> NULL, aim |-> NULL],
                    fits |-> [f \in Fitters |-> 0] ]

\* the STLObjects that re-render and commit with their parent: those whose
\* geometry is there for the current url
Committed == {s \in Sides : probe.geometry[s] = probe.url[s]}

\* the fit both components write: perspective cameras are placed and aimed
\* at the controls' target when there are controls, with lookAt otherwise
FitView(by, orthoLooksAt) ==
    IF probe.camera = "perspective"
    THEN [by |-> by, aim |-> IF probe.controls THEN "controls" ELSE "lookAt"]
    ELSE IF orthoLooksAt THEN [by |-> by, aim |-> "lookAt"] ELSE probe.view

\* useLoader delivers the geometry of the side's current url: the STLObject
\* commits with another resource, and its effect is queued (geometry and
\* url are dependencies)
Load(side) ==
    /\ probe.effects = {}
    /\ probe.geometry[side] # probe.url[side]
    /\ probe' = [probe EXCEPT !.geometry[side] = probe.url[side],
                              !.effects = {side},
                              !.fits[side] = 0]
    /\ UNCHANGED ViewerVars

\* STLObject's effect
STLObjectEffect(side) ==
    /\ side \in probe.effects
    /\ probe' =
         IF probe.geometry[side] = NULL \/ probe.didFit[side] = probe.url[side]
         THEN [probe EXCEPT !.effects = @ \ {side}]
         ELSE [probe EXCEPT !.effects = @ \ {side},
                            !.view = FitView(side, TRUE),
                            !.didFit[side] = probe.url[side],
                            !.fits[side] = Counted(@)]
    /\ UNCHANGED ViewerVars

\* FitOnce's effect
FitOnceEffect ==
    /\ "FitOnce" \in probe.effects
    /\ probe' =
         IF probe.did \/ ~probe.hasAny
         THEN [probe EXCEPT !.effects = @ \ {"FitOnce"}]
         ELSE [probe EXCEPT !.effects = @ \ {"FitOnce"},
                            !.view = FitView("FitOnce", FALSE),
                            !.did = TRUE,
                            !.fits["FitOnce"] = Counted(@)]
    /\ UNCHANGED ViewerVars

\* the page re-renders on a state change: FitOnce's targets array is a new
\* one on every render, so its effect is queued; an STLObject's
\* dependencies are the same and its effect is not
Rerender ==
    /\ probe.effects = {}
    /\ probe' = [probe EXCEPT !.effects = {"FitOnce"}]
    /\ UNCHANGED ViewerVars

\* the target groups gain or lose their pickers in a render of the page
SetTargets(hasAny) ==
    /\ probe.effects = {}
    /\ probe.hasAny # hasAny
    /\ probe' = [probe EXCEPT !.hasAny = hasAny, !.effects = {"FitOnce"}]
    /\ UNCHANGED ViewerVars

\* the canvas is resized: size is a dependency of all three effects
Resize(size) ==
    /\ probe.effects = {}
    /\ probe.size # size
    /\ probe' = [probe EXCEPT !.size = size,
                              !.effects = Committed \cup {"FitOnce"}]
    /\ UNCHANGED ViewerVars

\* the canvas' default camera is replaced: camera is a dependency of all
\* three effects
SetCamera(camera) ==
    /\ probe.effects = {}
    /\ probe.camera # camera
    /\ probe' = [probe EXCEPT !.camera = camera,
                              !.effects = Committed \cup {"FitOnce"}]
    /\ UNCHANGED ViewerVars

\* OrbitControls mounts and sets controlsRef.current; the ref object is the
\* same, so no effect is queued
AttachControls ==
    /\ probe.effects = {}
    /\ ~probe.controls
    /\ probe' = [probe EXCEPT !.controls = TRUE]
    /\ UNCHANGED ViewerVars

\* location.state changes under the mounted page (a history traversal
\* between two entries of the viewer's route): the page re-renders with
\* another url for the side, and the side's STLObject suspends
ChangeUrl(side, url) ==
    /\ probe.effects = {}
    /\ probe.url[side] # url
    /\ probe' = [probe EXCEPT !.url[side] = url,
                              !.effects = {"FitOnce"},
                              !.fits["FitOnce"] = 0]
    /\ UNCHANGED ViewerVars

CameraNext ==
    \/ \E side \in Sides : Load(side)
    \/ \E side \in Sides : STLObjectEffect(side)
    \/ FitOnceEffect
    \/ Rerender
    \/ \E hasAny \in BOOLEAN : SetTargets(hasAny)
    \/ \E size \in Viewports : Resize(size)
    \/ \E camera \in Cameras : SetCamera(camera)
    \/ AttachControls
    \/ \E side \in Sides, url \in Urls : ChangeUrl(side, url)

CameraSpec == CameraInit /\ [][CameraNext]_vars


\* ------------------------------------------------------------ sleeve inner loop
\* The inner-loop point of HollowSleeveOnSpline computed as a point, on
\* outer points whose distance from the centroid is a whole number so that
\* dir.length() is exact.  Walls and lengths are fractions [n, d].
OffsetMax == 5

\* dir.length() || 1e-8
LengthOrTiny(lenSq) ==
    IF lenSq = 0 THEN [n |-> 1, d |-> 100000000] ELSE [n |-> Isqrt(lenSq), d |-> 1]

\* the factor without the clamp: 1 - wall / len
SleeveFactor_Unclamped(wall, len) ==
    [n |-> wall.d * len.n - wall.n * len.d, d |-> wall.d * len.n]

\* Math.max(0, 1 - wall / len)
SleeveFactor(wall, len) ==
    IF wall.n * len.d >= wall.d * len.n
    THEN [n |-> 0, d |-> 1]
    ELSE [n |-> wall.d * len.n - wall.n * len.d, d |-> wall.d * len.n]

\* c2.clone().add(dir.multiplyScalar(factor)): the point (x / d, y / d)
InnerOffset(p, c2, wall) ==
    LET ip == InnerPoint(p, c2, wall)
        f == SleeveFactor(wall, LengthOrTiny(ip.lenSq))
    IN  [ x |-> c2[1] * f.d + ip.dir[1] * f.n,
          y |-> c2[2] * f.d + ip.dir[2] * f.n,
          d |-> f.d ]

\* the offsets of an outer point from the centroid at a whole distance
WholeOffsets ==
    { o \in (-OffsetMax..OffsetMax) \X (-OffsetMax..OffsetMax) :
        Isqrt(o[1] * o[1] + o[2] * o[2]) * Isqrt(o[1] * o[1] + o[2] * o[2])
            = o[1] * o[1] + o[2] * o[2] }

Centroids == { <<0, 0>>, <<1, -2>> }

\* wall thicknesses: none, the default 0.8, and some up to the distances
Walls == { [n |-> 0, d |-> 1], SleeveWall, [n |-> 1, d |-> 1], [n |-> 5, d |-> 2],
           [n |-> 5, d |-> 1], [n |-> 9, d |-> 1] }

SleeveInit ==
    /\ InitViewer([mesh1 |-> Mesh1Of(<<1, 1, 0>>, LayoutPlanes)])
    /\ \E c2 \in Centroids, o \in WholeOffsets, wall \in Walls :
          probe = [ p |-> <<c2[1] + o[1], c2[2] + o[2]>>, c2 |-> c2,
                    wall |-> wall, inner |-> None ]

\* outer.map((p) => ...) on one outer point
Offset ==
    /\ probe.inner = None
    /\ probe' = [probe EXCEPT !.inner = Some(InnerOffset(probe.p, probe.c2, probe.wall))]
    /\ UNCHANGED ViewerVars

SleeveNext == Offset

SleeveSpec == SleeveInit /\ [][SleeveNext]_vars


\* ------------------------------------------------------------ review markup
\* The review screen's scene: MarkupForSelection for each side on the
\* documents and selections of location.state, and the hover key the
\* sleeves set.  probe holds the state handed to the screen, what each
\* side's MarkupForSelection rendered (None before the render), and
\* hoveredKey.
SelectionMax == 3

\* `${prefix}:${id}`
MarkupKey(prefix, id) == prefix \o ":" \o id

\* the filter that does not look at prep
IsMarked_AnyPrep(centers, id) ==
    /\ id \in DOMAIN centers
    /\ "spline" \in DOMAIN centers[id]
    /\ Len(centers[id].spline) >= 3

\* !!t && t.prep === 1 && t.spline?.length >= 3 for t = centers[id]
IsMarked(centers, id) ==
    /\ id \in DOMAIN centers
    /\ centers[id].prep = 1
    /\ "spline" \in DOMAIN centers[id]
    /\ Len(centers[id].spline) >= 3

\* the group rendered for one item: the sleeve's memo and the line's spline
MarkupItem(centers, id, prefix) ==
    [ key |-> MarkupKey(prefix, id),
      sleeve |-> HollowSleeveOnSpline(centers[id].spline, SleeveWall, SleeveHeight),
      line |-> centers[id].spline ]

\* MarkupForSelection: None for null, else the groups in selection order
MarkupForSelection(meshJson, selectedIds, prefix) ==
    IF "centers" \notin DOMAIN meshJson \/ Len(selectedIds) = 0
    THEN None
    ELSE LET items == SelectSeq(selectedIds, LAMBDA id : IsMarked(meshJson.centers, id))
         IN  Some([ i \in 1..Len(items) |-> MarkupItem(meshJson.centers, items[i], prefix) ])

\* the documents handed to the review screen
ReviewDocsA ==
    { [ is_lower |-> FALSE,
        centers |-> [ id \in {"3", "7", "8", "12"} |->
            CASE id = "3" -> ToothValue(1, 3, Square)
              [] id = "7" -> ToothValue(0, 7, Triangle)
              [] id = "8" -> ToothValue(1, 8, TwoPoints)
              [] id = "12" -> ToothValueNoSpline(1, 12) ] ],
      [ is_lower |-> FALSE,
        centers |-> [ id \in {"3", "7"} |->
            IF id = "3" THEN ToothValue(1, 3, Collinear)
                        ELSE ToothValue(1, 7, Triangle) ] ] }

ReviewDocsB == { Mesh2Of, [is_lower |-> TRUE] }

\* selections of up to SelectionMax ids without repetition; "99" is the key
\* of no document
SelectableIds == {"3", "7", "8", "12", "99"}

Selections ==
    { s \in UNION { [1..n -> SelectableIds] : n \in 0..SelectionMax } :
        \A i \in 1..Len(s), j \in 1..Len(s) : s[i] = s[j] => i = j }

SelectionsB == { <<>>, <<"3">>, <<"8", "3">> }

ReviewInit ==
    /\ InitViewer([mesh1 |-> Mesh1Of(<<1, 1, 0>>, LayoutPlanes)])
    /\ \E mesh1 \in ReviewDocsA, mesh2 \in ReviewDocsB,
          selectedIdsA \in Selections, selectedIdsB \in SelectionsB :
          probe = [ mesh1 |-> mesh1, mesh2 |-> mesh2,
                    selectedIdsA |-> selectedIdsA, selectedIdsB |-> selectedIdsB,
                    markup |-> None, hoveredKey |-> NULL ]

\* the scene of ReviewPage is rendered
RenderReview ==
    /\ probe.markup = None
    /\ probe' = [probe EXCEPT !.markup =
                    Some([ A |-> MarkupForSelection(probe.mesh1, probe.selectedIdsA, "A"),
                           B |-> MarkupForSelection(probe.mesh2, probe.selectedIdsB, "B") ])]
    /\ UNCHANGED ViewerVars

\* the groups a side rendered
RenderedItems(side) ==
    IF probe.markup = None \/ probe.markup[1][side] = None THEN <<>>
    ELSE probe.markup[1][side][1]

\* onPointerOver of the sleeve with idKey key
PointerOver(key) ==
    /\ \E side \in Sides : \E i \in 1..Len(RenderedItems(side)) :
          RenderedItems(side)[i].key = key
    /\ probe.hoveredKey # key
    /\ probe' = [probe EXCEPT !.hoveredKey = key]
    /\ UNCHANGED ViewerVars

\* onPointerOut
PointerOut ==
    /\ probe.hoveredKey # NULL
    /\ probe' = [probe EXCEPT !.hoveredKey = NULL]
    /\ UNCHANGED ViewerVars

MarkupKeys == { MarkupKey(prefix, id) : prefix \in Sides, id \in SelectableIds }

ReviewNext ==
    \/ RenderReview
    \/ \E key \in MarkupKeys : PointerOver(key)
    \/ PointerOut

ReviewSpec == ReviewInit /\ [][ReviewNext]_vars


\* ------------------------------------------------------------ renumbering calls
\* changeNumA / changeNumB called on their own, with ids that are keys of
\* the document and with one that is not.  The viewer's state is the
\* state; probe counts the calls and keeps the last one.
MaxCalls == 2

CallIds == Range(KeyOrder) \cup {"99"}

CallNums == {5, 16}

RenumberInit ==
    /\ \E text \in Uploads : InitViewer(text)
    /\ probe = [calls |-> 0, last |-> None]

\* changeNumA(id, newNum) / changeNumB(id, newNum)
ChangeNumCall(side, id, newNum) ==
    /\ Idle
    /\ probe.calls < MaxCalls
    /\ probe' = [calls |-> probe.calls + 1, last |-> Some(<<side, id, newNum>>)]
    /\ changeNum(side, id, newNum)
    /\ UNCHANGED <<jsonData, activeIds, show, pickersReady, pickers, drafts,
                   errors, nTyped, upload, route, handoff, showAllSplines>>

RenumberNext ==
    \/ \E side \in Sides : SetPickers(side)
    \/ \E side \in Sides : RebuildPickers(side)
    \/ \E side \in Sides, id \in Range(KeyOrder) : ListClick(side, id)
    \/ \E side \in Sides, id \in CallIds, newNum \in CallNums :
            ChangeNumCall(side, id, newNum)

RenumberSpec == RenumberInit /\ [][RenumberNext]_vars


\* ------------------------------------------------------------ refresh flag
\* The viewer's refresh warning and redirect over sessionStorage.  probe
\* holds the page shown, the flag in sessionStorage, whether the browser's
\* leave-page dialog is open, whether the viewer has mounted and its mount
\* effect is still to run, how the viewer's present mount was reached,
\* whether that mount was redirected, and the numbers of beforeunload
\* events and of viewer mounts so far.
MaxUnloads == 2

MaxMounts == 4

RefreshInit ==
    /\ InitViewer([mesh1 |-> Mesh1Of(<<1, 1, 0>>, LayoutPlanes)])
    /\ probe = [ page |-> "upload", flag |-> FALSE, dialog |-> FALSE,
                 mounting |-> FALSE, via |-> NULL, redirected |-> FALSE,
                 unloads |-> 0, mounts |-> 0 ]

\* nothing is waiting: no dialog is open and no mount effect is to run
NothingWaiting == ~probe.dialog /\ ~probe.mounting

\* ViewerPage mounts, reached by via
MountViewer(via) ==
    [probe EXCEPT !.page = "viewer", !.mounting = TRUE, !.via = via,
                  !.redirected = FALSE, !.mounts = @ + 1]

\* handleSubmit of the upload page with valid files: navigate("/viewer")
SubmitUpload ==
    /\ NothingWaiting
    /\ probe.page = "upload"
    /\ probe.mounts < MaxMounts
    /\ probe' = MountViewer("submit")
    /\ UNCHANGED ViewerVars

\* the mount effect: the flag is read, removed and the page replaced by "/"
RefreshEffect ==
    /\ probe.mounting
    /\ probe' = IF probe.flag
                THEN [probe EXCEPT !.mounting = FALSE, !.flag = FALSE,
                                   !.page = "upload", !.redirected = TRUE]
                ELSE [probe EXCEPT !.mounting = FALSE]
    /\ UNCHANGED ViewerVars

\* onBeforeUnload while the viewer is mounted: the user reloads, closes or
\* leaves, the flag is set and the browser asks
BeforeUnload ==
    /\ NothingWaiting
    /\ probe.page = "viewer"
    /\ probe.unloads < MaxUnloads
    /\ probe' = [probe EXCEPT !.flag = TRUE, !.dialog = TRUE, !.unloads = @ + 1]
    /\ UNCHANGED ViewerVars

\* the user stays on the page
CancelUnload ==
    /\ probe.dialog
    /\ probe' = [probe EXCEPT !.dialog = FALSE]
    /\ UNCHANGED ViewerVars

\* the user confirms and the page is reloaded at /viewer
ConfirmReload ==
    /\ probe.dialog
    /\ probe.mounts < MaxMounts
    /\ probe' = [MountViewer("reload") EXCEPT !.dialog = FALSE]
    /\ UNCHANGED ViewerVars

\* handleBack: navigate("/")
BackToUpload ==
    /\ NothingWaiting
    /\ probe.page = "viewer"
    /\ probe' = [probe EXCEPT !.page = "upload"]
    /\ UNCHANGED ViewerVars

\* handleSaveContinue: navigate("/review")
ToReview ==
    /\ NothingWaiting
    /\ probe.page = "viewer"
    /\ probe' = [probe EXCEPT !.page = "review"]
    /\ UNCHANGED ViewerVars

\* the review page's Back: nav(-1)
BackFromReview ==
    /\ NothingWaiting
    /\ probe.page = "review"
    /\ probe.mounts < MaxMounts
    /\ probe' = MountViewer("back")
    /\ UNCHANGED ViewerVars

RefreshNext ==
    \/ SubmitUpload
    \/ RefreshEffect
    \/ BeforeUnload
    \/ CancelUnload
    \/ ConfirmReload
    \/ BackToUpload
    \/ ToReview
    \/ BackFromReview

RefreshSpec == RefreshInit /\ [][RefreshNext]_vars

\* ------------------------------------------------------------ properties

OriginalRef(side, id) == docs[jsonData[MeshKey(side)]].centers[id]

EditableRef(side, id) == docs[meshLocal[side]].centers[id]

Loaded(side, id) == upload[MeshKey(side)].centers[id]

\* some display number of side differs from the loaded one
Renumbered(side) ==
    /\ meshLocal[side] # NullRef
    /\ \E id \in IdsOf(side) : ToothOf(side, id).num # Loaded(side, id).num

\* no effect of the side's registry is waiting and the group is attached
RegistryCurrent(side) ==
    /\ meshLocal[side] # NullRef
    /\ pickersReady[side]
    /\ <<"attach", side>> \notin pending
    /\ <<"pickers", side>> \notin pending

\* C1: once a display number has been edited, the editable document's record
\* of the edited tooth is not the record object of the original document, and
\* the original document's records still hold the numbers they were loaded
\* with.
C1_OriginalUntouched ==
    \A side \in Sides :
        meshLocal[side] # NullRef =>
            \A id \in IdsOf(side) :
                /\ recs[OriginalRef(side, id)].num = Loaded(side, id).num
                /\ ToothOf(side, id).num # Loaded(side, id).num
                     => EditableRef(side, id) # OriginalRef(side, id)

\* C2: the defect flag of every tooth, in the original and in the editable
\* document, is the flag it was loaded with, whatever has been clicked,
\* picked, edited, shown, hidden or saved.
C2_PrepReadOnly ==
    \A side \in Sides :
        meshLocal[side] # NullRef =>
            \A id \in IdsOf(side) :
                /\ ToothOf(side, id).prep = Loaded(side, id).prep
                /\ recs[OriginalRef(side, id)].prep = Loaded(side, id).prep

C2_Witness ==
    /\ route = "review"
    /\ \E side \in Sides :
         /\ Renumbered(side)
         /\ activeIds[side] # <<>>
         /\ \E id \in IdsOf(side) : ToothOf(side, id).prep = 1

\* the entered text is none of the numbers 1..16
InvalidText(val) == ~AllDigits(val) \/ DecimalValue(val) \notin 1..16

\* the field of tooth id would be refused with a message if it lost the focus
BlurRejects(side, id) ==
    handleBlur(Selected(side, id), drafts[side][id], ToothOf(side, id).num).kind = "error"

\* C3 as stated: after any non-numeric, empty or out-of-range value has been
\* entered in a tooth's field, leaving the field is refused with a message
\* and the number is not changed.
C3_InvalidEntryRejectedWithMessage ==
    [][ \A side \in Sides, id \in Range(KeyOrder), val \in TypedValues :
          (nTyped' # nTyped /\ InvalidText(val) /\ HandleChange(side, id, val))
              => /\ BlurRejects(side, id)'
                 /\ UNCHANGED <<recs, docs, meshLocal>> ]_vars

\* C3: an entered value that is empty or a digit string outside 1..16 is in
\* the field afterwards and leaving the field is refused with a message,
\* without a new snapshot and with every number unchanged; an entered value
\* with a non-digit character is dropped on entry, the field's text and
\* message staying as they were.
C3_InvalidEntryRejected ==
    [][ \A side \in Sides, id \in Range(KeyOrder) :
          /\ \A val \in TypedValues :
               /\ (nTyped' # nTyped /\ InvalidText(val) /\ AcceptsText(val)
                     /\ HandleChange(side, id, val))
                    => /\ drafts'[side][id] = val
                       /\ BlurRejects(side, id)'
                       /\ UNCHANGED <<recs, docs, meshLocal>>
               /\ (nTyped' # nTyped /\ ~AcceptsText(val) /\ HandleChange(side, id, val))
                    => UNCHANGED <<drafts, errors, recs, docs, meshLocal>>
          /\ (nTyped' = nTyped /\ id \in IdsOf(side) /\ Selected(side, id)
                /\ InvalidText(drafts[side][id]) /\ Blur(side, id))
                => /\ errors'[side][id] \in {RequiredMessage, RangeMessage}
                   /\ UNCHANGED <<recs, docs, meshLocal, pending>> ]_vars

C3_Witness ==
    \E side \in Sides :
        /\ meshLocal[side] # NullRef
        /\ \E id \in IdsOf(side) :
             /\ drafts[side][id] = <<"1", "7">>
             /\ errors[side][id] = RangeMessage
             /\ ToothOf(side, id).num = Loaded(side, id).num
             /\ meshLocal[side] = jsonData[MeshKey(side)]

\* C4: leaving the field of a selected tooth whose text is a number in 1..16
\* other than the tooth's current number sets a new snapshot in which the
\* tooth has that number and schedules the registry's rebuild; a text outside
\* 1..16 sets no snapshot; and every rebuilt region carries the current number
\* of its tooth.
C4_ValidEditCommits ==
    [][ \A side \in Sides :
          /\ \A id \in IdsOf(side) :
               /\ (nTyped' = nTyped /\ Selected(side, id) /\ ~InvalidText(drafts[side][id])
                     /\ DecimalValue(drafts[side][id]) # ToothOf(side, id).num
                     /\ Blur(side, id))
                     => /\ Len(docs') = Len(docs) + 1
                        /\ meshLocal'[side] = Len(docs')
                        /\ ToothOf(side, id)'.num = DecimalValue(drafts[side][id])
                        /\ <<"pickers", side>> \in pending'
               /\ (nTyped' = nTyped /\ InvalidText(drafts[side][id]) /\ Blur(side, id))
                     => UNCHANGED <<recs, docs, meshLocal>>
          /\ (<<"pickers", side>> \in pending /\ RegistryCurrent(side)' /\ RebuildPickers(side))
                => \A i \in 1..Len(pickers'[side]) :
                     /\ pickers'[side][i].userData.toothId \in IdsOf(side)
                     /\ pickers'[side][i].toothNum =
                          ToothOf(side, pickers'[side][i].userData.toothId).num ]_vars

C4_Witness ==
    \E side \in Sides :
        /\ RegistryCurrent(side)
        /\ \E id \in IdsOf(side) :
             /\ ToothOf(side, id).num = 9
             /\ Loaded(side, id).num # 9
             /\ \E i \in 1..Len(pickers[side]) :
                  /\ pickers[side][i].userData.toothId = id
                  /\ pickers[side][i].toothNum = 9

\* the tooth record has a boundary loop of at least 3 points
HasLoop(t) == "spline" \in DOMAIN t /\ Len(t.spline) >= 3

RegionsOf(registry, id) == { i \in 1..Len(registry) : registry[i].userData.toothId = id }

\* C5: the registry the builder returned for a side's document has exactly
\* one region, tagged with the tooth's id, for each tooth with flag 1 and a
\* loop of at least 3 points, and no region for any other tooth or id.
C5_OneRegionPerDefectiveLoop ==
    \A side \in Sides :
        RegistryCurrent(side) =>
            /\ \A id \in IdsOf(side) :
                 Cardinality(RegionsOf(pickers[side], id)) =
                    IF ToothOf(side, id).prep = 1 /\ HasLoop(ToothOf(side, id))
                    THEN 1 ELSE 0
            /\ \A i \in 1..Len(pickers[side]) :
                 pickers[side][i].userData.toothId \in IdsOf(side)

C5_Witness ==
    \E side \in Sides :
        /\ RegistryCurrent(side)
        /\ Len(pickers[side]) = 1
        /\ \E id \in IdsOf(side) :
             /\ ToothOf(side, id).prep = 1
             /\ "spline" \in DOMAIN ToothOf(side, id)
             /\ Len(ToothOf(side, id).spline) = 2
        /\ \E id \in IdsOf(side) : ToothOf(side, id).prep = 0

\* what the comparison of two registries looks at
RegionView(r) ==
    [id |-> r.userData.toothId, poly2 |-> r.poly2, plane |-> r.plane, edgeBuffer |-> r.edgeBuffer]

ViewOf(registry) == [i \in 1..Len(registry) |-> RegionView(registry[i])]

DocumentView(side) == [id \in IdsOf(side) |-> ToothOf(side, id)]

\* C7: the rebuild effect of a side leaves in the picker group exactly the
\* registry built from the side's current document, with no two regions for
\* one tooth id; and while no rebuild of the side is waiting, the group and
\* the document it was built from stay as they are.
C7_RegistryMatchesDocument ==
    [][ \A side \in Sides :
          /\ (<<"pickers", side>> \in pending /\ RegistryCurrent(side)' /\ RebuildPickers(side))
                => /\ pickers'[side] =
                        buildToothPickersById(docs'[meshLocal'[side]], recs', EdgeBufferDefault)
                   /\ \A i, j \in 1..Len(pickers'[side]) :
                        pickers'[side][i].userData.toothId = pickers'[side][j].userData.toothId
                           => i = j
          /\ (RegistryCurrent(side) /\ RegistryCurrent(side)')
                => /\ pickers'[side] = pickers[side]
                   /\ DocumentView(side)' = DocumentView(side) ]_vars

C7_Witness ==
    \E side \in Sides :
        /\ RegistryCurrent(side)
        /\ Renumbered(side)
        /\ meshLocal[side] # jsonData[MeshKey(side)]
        /\ Len(pickers[side]) >= 2
        /\ pending = {}

\* C8: the picker group of a side holds no region for a tooth whose loop has
\* a zero Newell normal.
C8_NoRegionForDegenerateLoop ==
    \A side \in Sides :
        RegistryCurrent(side) =>
            \A i \in 1..Len(pickers[side]) :
                newellPlane(ToothOf(side, pickers[side][i].userData.toothId).spline).normal
                    # Zero3

\* C9: for a loop of fewer than 3 points the sleeve has no geometry and the
\* registry of the tooth carrying the loop is empty.
C9_ShortLoopYieldsNothing ==
    Len(probe.spline) < 3 =>
        /\ probe.sleeve # None => probe.sleeve[1].geom = None
        /\ probe.registry # None => probe.registry[1] = <<>>

C9_Witness ==
    /\ Len(probe.spline) = 2
    /\ probe.sleeve # None
    /\ probe.registry # None

\* the distance from p to the segment a b is at most buffer
SegmentWithin(p, a, b, buffer) ==
    LET ab == <<b[1] - a[1], b[2] - a[2]>>
        ap == <<p[1] - a[1], p[2] - a[2]>>
        bp == <<p[1] - b[1], p[2] - b[2]>>
        len2 == ab[1] * ab[1] + ab[2] * ab[2]
        along == ap[1] * ab[1] + ap[2] * ab[2]
        across == ap[1] * ab[2] - ap[2] * ab[1]
    IN  IF len2 = 0 \/ along <= 0 THEN ap[1] * ap[1] + ap[2] * ap[2] <= buffer * buffer
        ELSE IF along >= len2 THEN bp[1] * bp[1] + bp[2] * bp[2] <= buffer * buffer
        ELSE across * across <= buffer * buffer * len2

\* some edge of the closed loop poly is within buffer of p
NearClosedLoop(p, poly, buffer) ==
    /\ ~HasNaN2(p)
    /\ \E k \in 1..Len(poly) :
         LET a == poly[k]
             b == poly[(k % Len(poly)) + 1]
         IN  ~HasNaN2(a) /\ ~HasNaN2(b) /\ SegmentWithin(p, a, b, buffer)

\* the number of records the last cast added to its intersects list
CastHits == Len(probe.cast[1].intersects) - Len(probe.cast[1].before)

\* the candidate point of the last cast in the region's 2D frame, when the
\* ray meets the region's plane between near and far
Candidate ==
    LET picker == probe.registry[1][1]
        ray == probe.cast[1].ray
        found == RayDistanceToPlane(ray, picker.plane)
    IN  IF found = None THEN None
        ELSE IF found[1] < probe.cast[1].near \/ found[1] > CameraFar THEN None
        ELSE LET lp == ApplyMatrix4(Add3(ray.origin, Scale3(ray.direction, found[1])),
                                    picker.toLocal)
             IN  Some(<<lp[1], lp[2]>>)

\* C10: raycast records a hit for a candidate point exactly when the point is
\* inside the polygon by pointInPolygon2D or within the edge buffer of some
\* edge of the closed loop, the edge from the last vertex to the first
\* included.
C10_AcceptIffInsideOrNearEdge ==
    (probe.cast # None /\ Candidate # None) =>
        LET picker == probe.registry[1][1]
        IN  (CastHits = 1)
               <=> \/ pointInPolygon2D(Candidate[1], picker.poly2)
                   \/ NearClosedLoop(Candidate[1], picker.poly2, picker.edgeBuffer)

C10_Witness ==
    /\ probe.cast # None
    /\ Candidate # None
    /\ CastHits = 1
    /\ ~pointInPolygon2D(Candidate[1], probe.registry[1][1].poly2)
    /\ probe.edgeBuffer = 1

\* p lies strictly on one side of every edge of the closed loop
StrictlyInside(p, poly) ==
    LET n == Len(poly)
        side(k) == Cross2(poly[k], poly[(k % n) + 1], p)
    IN  \/ \A k \in 1..n : side(k) > 0
        \/ \A k \in 1..n : side(k) < 0

\* C11: for a strictly convex polygon, from any starting vertex and in either
\* winding order, pointInPolygon2D returns true for every point strictly
\* inside it, also when the point has the y coordinate of a vertex.
C11_InteriorPointsAccepted ==
    (probe.point # None /\ StrictlyInside(probe.point[1], probe.poly))
        => probe.inside = Some(TRUE)

C11_Witness ==
    /\ probe.point # None
    /\ StrictlyInside(probe.point[1], probe.poly)
    /\ probe.inside = Some(TRUE)
    /\ Len(probe.poly) = 4
    /\ \E k \in 1..Len(probe.poly) : probe.poly[k][2] = probe.point[1][2]

\* the world-space point where the last cast's ray meets the region's plane,
\* when it does so between near and far
CastPoint ==
    LET picker == probe.registry[1][1]
        ray == probe.cast[1].ray
        found == RayDistanceToPlane(ray, picker.plane)
    IN  IF found = None THEN None
        ELSE IF found[1] < probe.cast[1].near \/ found[1] > CameraFar THEN None
        ELSE Some(Add3(ray.origin, Scale3(ray.direction, found[1])))

FineCase == probe.spline = FineSquare /\ probe.edgeBuffer = 2 /\ probe.cast # None

\* C12: for the square loop (0,0,0), (2,0,0), (2,2,0), (0,2,0) with edge
\* buffer 0.1, the region built by the whole pipeline accepts a pick meeting
\* its plane at (1,1,0), accepts one at (1,-0.05,0) and rejects one at
\* (1,-1,0).  Lengths are in units of 0.05.
C12_SquareScenario ==
    (FineCase /\ CastPoint # None) =>
        /\ CastPoint[1] = <<20, 20, 0>> => CastHits = 1
        /\ CastPoint[1] = <<20, -1, 0>> => CastHits = 1
        /\ CastPoint[1] = <<20, -20, 0>> => CastHits = 0

C12_Witness ==
    /\ FineCase
    /\ CastPoint = Some(<<20, -1, 0>>)
    /\ CastHits = 1

CastPicker == probe.registry[1][1]

CastParallel == Dot3(CastPicker.plane.normal, probe.cast[1].ray.direction) = 0

\* the signed parameter of the plane along the ray, for a ray that is not
\* parallel to it (the directions are axis unit vectors)
CastParam ==
    (0 - (Dot3(CastPicker.plane.normal, probe.cast[1].ray.origin) + CastPicker.plane.constant))
        * Dot3(CastPicker.plane.normal, probe.cast[1].ray.direction)

CastMisses ==
    \/ CastParallel
    \/ CastParam < 0
    \/ CastParam < probe.cast[1].near
    \/ CastParam > CameraFar

\* the one record of an accepted cast
CastRecord ==
    [ object |-> CastPicker,
      distance |-> CastParam,
      point |-> Add3(probe.cast[1].ray.origin,
                     Scale3(probe.cast[1].ray.direction, CastParam)) ]

ValidPlane == \A i \in 1..3 : ~IsNaN(CastPicker.plane.normal[i])

\* C13: raycast leaves the intersects list as it was whenever the ray is
\* parallel to the region's plane, the intersection is behind the ray origin,
\* or its distance is below near or above far; otherwise it leaves the list
\* as it was or appends exactly one record holding the region, the distance
\* from the ray origin and the world-space intersection point.
C13_SilentMissOrOneRecord ==
    (probe.cast # None /\ ValidPlane) =>
        IF CastMisses
        THEN probe.cast[1].intersects = probe.cast[1].before
        ELSE \/ probe.cast[1].intersects = probe.cast[1].before
             \/ probe.cast[1].intersects = Append(probe.cast[1].before, CastRecord)

ClickCaster == [ray |-> probe.click[1].ray, near |-> CameraNear, far |-> CameraFar]

\* the places in the registry of the regions that accept the click's ray
Accepting == { k \in 1..Len(probe.children) : raycast(probe.children[k], ClickCaster, <<>>) # <<>> }

HitDistance(k) == raycast(probe.children[k], ClickCaster, <<>>)[1].distance

\* the accepting region of lowest distance, the first in registry order among
\* equals
Nearest ==
    CHOOSE k \in Accepting :
        \A j \in Accepting :
            \/ HitDistance(k) < HitDistance(j)
            \/ HitDistance(k) = HitDistance(j) /\ k <= j

\* C14: when more than one region accepts the pick ray, the click handler
\* toggles the identifier of the accepting region of lowest distance, the
\* first in registry order among regions of equal distance; the identifier
\* depends on the ray and the registry only.
C14_NearestFirstWins ==
    (probe.click # None /\ Cardinality(Accepting) > 1) =>
        probe.click[1].next = toggleId(probe.prev, probe.children[Nearest].userData.toothId)

\* a later region is nearer than an earlier one that also accepts
C14_Witness ==
    /\ probe.click # None
    /\ Cardinality(Accepting) > 1
    /\ Nearest > 1
    /\ 1 \in Accepting
    /\ probe.click[1].next = toggleId(probe.prev, probe.children[Nearest].userData.toothId)

\* two accepting regions at the lowest distance
C14_TieWitness ==
    /\ probe.click # None
    /\ \E j \in Accepting : j # Nearest /\ HitDistance(j) = HitDistance(Nearest)
    /\ probe.click[1].next = toggleId(probe.prev, probe.children[Nearest].userData.toothId)

\* C15 as stated: for every loop of three or more points the normal returned
\* by newellPlane has unit length.
C15_NormalAlwaysUnit ==
    probe.fit # None => LengthSq3(probe.fit[1].plane.normal) = 1

\* C15: the normal returned by newellPlane has unit length exactly when the
\* Newell accumulator is not the zero vector; for a loop whose accumulator is
\* zero (collinear or repeated points, or a loop whose signed areas cancel)
\* it is the zero vector itself.
C15_NormalUnitOrZero ==
    probe.fit # None =>
        IF probe.fit[1].acc = Zero3
        THEN probe.fit[1].plane.normal = Zero3
        ELSE LengthSq3(probe.fit[1].plane.normal) = 1

\* a loop of three distinct points with a zero accumulator
C15_Witness ==
    /\ probe.fit # None
    /\ Cardinality(Range(probe.points)) = Len(probe.points)
    /\ probe.fit[1].acc = Zero3
    /\ probe.fit[1].plane.normal = Zero3

Negated3(a) == <<0 - a[1], 0 - a[2], 0 - a[3]>>

\* C16: handing the points over in reverse leaves the centroid unchanged and
\* negates the Newell accumulator exactly, so the normal is itself or its
\* negation; starting at another point of the loop changes neither.
C16_ReversalNegatesRotationKeeps ==
    probe.fit # None =>
        LET given == newellPlane(probe.points)
            acc == NewellAcc(probe.points, Len(probe.points))
            fit == probe.fit[1]
        IN  /\ fit.plane.origin = given.origin
            /\ fit.sum = SumPoints(probe.points, Len(probe.points))
            /\ fit.order.kind = "reversed" =>
                  /\ fit.acc = Negated3(acc)
                  /\ fit.plane.normal = Negated3(given.normal)
            /\ fit.order.kind = "rotated" =>
                  /\ fit.acc = acc
                  /\ fit.plane.normal = given.normal

C16_Witness ==
    /\ probe.fit # None
    /\ probe.fit[1].order.kind = "reversed"
    /\ probe.fit[1].acc # Zero3
    /\ probe.fit[1].acc = Negated3(NewellAcc(probe.points, Len(probe.points)))
    /\ Len(probe.points) > 3

\* C17: for a non-zero normal, buildBasis takes world Y as the reference axis
\* when |n.y| < 0.9 and world X otherwise; the cross product of n and the
\* reference is not zero, and u, v, n are mutually orthogonal unit vectors
\* with u x v = n.
C17_RightHandedOrthonormal ==
    (probe.frame # None /\ probe.normal # Zero3) =>
        LET f == probe.frame[1]
            reference == IF 10 * Abs(f.n[2]) < 9 THEN <<0, 1, 0>> ELSE <<1, 0, 0>>
        IN  /\ Cross3(f.n, reference) # Zero3
            /\ f.u = Normalize3(Cross3(f.n, reference))
            /\ LengthSq3(f.u) = 1 /\ LengthSq3(f.v) = 1 /\ LengthSq3(f.n) = 1
            /\ Dot3(f.u, f.v) = 0 /\ Dot3(f.u, f.n) = 0 /\ Dot3(f.v, f.n) = 0
            /\ Cross3(f.u, f.v) = f.n

\* a frame on a normal along world Y, where the reference is world X
C17_Witness ==
    /\ probe.frame # None
    /\ probe.normal[2] < 0
    /\ probe.frame[1].u = Normalize3(Cross3(probe.frame[1].n, <<1, 0, 0>>))
    /\ Cross3(probe.frame[1].u, probe.frame[1].v) = probe.frame[1].n

\* C18 as stated: for a frame on a non-zero normal, every world point
\* projected to local 2D and mapped back is the original point.
C18_RoundTripEveryPoint ==
    (probe.trip # None /\ probe.normal # Zero3) => probe.trip[1].back = probe.trip[1].p

\* C18: for a frame on a non-zero normal, a world point projected to local 2D
\* and mapped back is the point's orthogonal projection onto the frame's
\* plane: the original point exactly when it lies on that plane.  Mapped back
\* with its local z kept, every point returns to itself.
C18_RoundTripOnPlane ==
    (probe.trip # None /\ probe.normal # Zero3) =>
        LET f == probe.frame[1]
            trip == probe.trip[1]
            height == Dot3(f.n, Sub3(trip.p, f.origin))
        IN  /\ trip.local[3] = height
            /\ trip.back = Sub3(trip.p, Scale3(f.n, height))
            /\ (trip.back = trip.p) <=> (height = 0)
            /\ trip.back3 = trip.p

\* a point of the plane away from the origin of a frame whose normal is not
\* along z
C18_Witness ==
    /\ probe.trip # None
    /\ probe.normal[1] > 0
    /\ probe.origin # Zero3
    /\ probe.trip[1].p # probe.origin
    /\ probe.trip[1].local[3] = 0
    /\ probe.trip[1].back = probe.trip[1].p

ToothOk(t) ==
    t.kind = "object" /\ {"prep", "num", "center", "spline"} \subseteq DOMAIN t.f

MeshOk(m) ==
    /\ m.kind = "object"
    /\ {"is_lower", "centers"} \subseteq DOMAIN m.f
    /\ m.f.centers.kind = "object"
    /\ \A id \in DOMAIN m.f.centers.f : ToothOk(m.f.centers.f[id])

\* the document has mesh1 with is_lower and centers, and every record has
\* prep, num, center and spline
WellFormed(doc) ==
    /\ doc.kind = "object"
    /\ "mesh1" \in DOMAIN doc.f
    /\ MeshOk(doc.f.mesh1)
    /\ "mesh2" \in DOMAIN doc.f => MeshOk(doc.f.mesh2)

Acceptable(text) == JSONParse(text) # None /\ WellFormed(JSONParse(text)[1])

\* C19: submit hands a document to the viewer only when the annotation text
\* parses as JSON and has the required fields; otherwise it shows a blocking
\* message and does not navigate.
C19_OnlyWellFormedReachViewer ==
    [][handleSubmit =>
          IF Acceptable(probe.jsonFile[1])
          THEN probe'.screen = "viewer"
          ELSE probe'.screen = "upload" /\ probe'.alert # None]_vars

\* C20: the viewer without a mesh URL or the document, and the review screen
\* without a URL or a mesh document, render the fallback; no navigation state
\* makes either screen fail.
C20_FallbackNeverFailure ==
    /\ probe.view # "crashed"
    /\ probe.screen = "viewer" =>
          LET s == ViewerStateOf(probe.state)
          IN  (~Truthy(s.meshAUrl) \/ ~Truthy(s.meshBUrl) \/ ~Truthy(s.jsonData))
                  => probe.view = "fallback"
    /\ probe.screen = "review" =>
          LET s == ReviewStateOf(probe.state)
          IN  (~Truthy(s.meshAUrl) \/ ~Truthy(s.meshBUrl) \/ ~Truthy(s.mesh1) \/ ~Truthy(s.mesh2))
                  => probe.view = "fallback"

\* a pick or a list click on side: a region hit, a marker click or a click on
\* a tooth of the list
PickOrListClick(side) ==
    \/ \E id \in Range(KeyOrder) : ListClick(side, id)
    \/ \E id \in Range(KeyOrder) : MarkerClick(side, id)
    \/ \E ray \in ClickRays : Pick(side, ray)

\* C21 as stated: a side's Selection Set changes only in a pick or a list
\* click.
C21_OnlyPickOrListClickWrites ==
    [][\A side \in Sides :
          activeIds'[side] # activeIds[side] => PickOrListClick(side)]_vars

\* C21: a side's Selection Set changes only in a pick, a list click, or the
\* effect that empties it after the side's Show Mesh switch was turned off; a
\* display-number edit, a registry rebuild, the show-all-splines switch and
\* the Show Mesh switch itself do not write it.
C21_OnlyPickListClickOrHideWrites ==
    [][\A side \in Sides :
          activeIds'[side] # activeIds[side] =>
              \/ PickOrListClick(side)
              \/ HideEffect(side) /\ ~show[side] /\ activeIds'[side] = <<>>]_vars

\* a selection that has outlived a committed edit, a rebuild and the hiding
\* of the other side
C21_Witness ==
    /\ activeIds["A"] # <<>>
    /\ Renumbered("A")
    /\ RegistryCurrent("A")
    /\ ~show["B"]
    /\ pending = {}


\* ---- C22
\* an STLObject of the camera specification has settled: its geometry is
\* that of its url and no effect is queued
Settled(side) == probe.geometry[side] = probe.url[side] /\ probe.effects = {}

\* STLObject fits once per url: since its url last changed it has fitted at
\* most once, and once it has settled it has fitted exactly once
STLObjectFitsOncePerUrl ==
    \A side \in Sides :
        /\ probe.fits[side] <= 1
        /\ Settled(side) => probe.fits[side] = 1 /\ probe.didFit[side] = probe.url[side]

\* FitOnce fits once per url: since a mesh url last changed it has fitted
\* at most once, and exactly once when its targets are there and no effect
\* is queued
FitOnceFitsOncePerUrl ==
    /\ probe.fits["FitOnce"] <= 1
    /\ probe.hasAny /\ probe.effects = {} => probe.fits["FitOnce"] = 1

\* C22: the camera auto-fit runs exactly once per resource identity: once
\* it has executed for a mesh url, no re-render and no change of camera,
\* viewport size or controls executes it again while the url is the same,
\* and it executes again when the url changes to a different one
C22_FitOncePerResource ==
    "camera" \in DOMAIN probe =>
        STLObjectFitsOncePerUrl /\ FitOnceFitsOncePerUrl

\* the case of C22: FitOnce has fitted, a mesh url has then changed under
\* the mounted page, the new geometry is loaded and fitted by its
\* STLObject, and every effect has run
C22_StaleFit ==
    /\ "camera" \in DOMAIN probe
    /\ probe.did /\ probe.hasAny /\ probe.effects = {}
    /\ probe.fits["FitOnce"] = 0
    /\ \A side \in Sides : Settled(side) /\ probe.fits[side] = 1
    /\ probe.size = 2 /\ probe.controls


\* ---- C23
\* a step in which the side's toggle is called with id by a click on the
\* list or on a marker of a defective tooth
ClickToggles(side, id) ==
    \/ ListClick(side, id) /\ ToothOf(side, id).prep = 1
    \/ MarkerClick(side, id) /\ ToothOf(side, id).prep = 1

NoDuplicates(s) == \A i \in 1..Len(s), j \in 1..Len(s) : s[i] = s[j] => i = j

\* what a toggle of id on the side has to do in a step
ToggleEffect(side, id) ==
    LET old == activeIds[side]
        new == activeIds'[side]
    IN  /\ ~Includes(old, id) => Range(new) = Range(old) \cup {id}
        /\ Includes(old, id) => Range(new) = Range(old) \ {id}
        /\ NoDuplicates(new)
        /\ Range(toggleId(new, id)) = Range(old)
        /\ NoDuplicates(toggleId(new, id))
        /\ \A other \in Sides \ {side} : activeIds'[other] = activeIds[other]
        /\ UNCHANGED <<recs, docs, jsonData, meshLocal>>

\* C23: a side's Selection Set behaves as a set under toggling: toggling an
\* absent id adds it, toggling a present id removes it, the set never holds
\* an id twice, toggling the same id again restores the previous set, and a
\* toggle on one side changes neither the other side's set nor a document.
\* The toggles are those of the list and marker clicks and those of the
\* picks: every step that changes a side's set, but for the hide effect
\* emptying it, is such a toggle of one id.
C23_ToggleIsSetToggle ==
    [][\A side \in Sides :
          /\ \A id \in Range(KeyOrder) :
                ClickToggles(side, id) => ToggleEffect(side, id)
          /\ activeIds'[side] # activeIds[side] /\ ~HideEffect(side) =>
                \E id \in Range(KeyOrder) :
                    /\ Includes(activeIds[side], id) # Includes(activeIds'[side], id)
                    /\ ToggleEffect(side, id)]_vars

\* the case of C23: both sides hold a selection, with the registries built
\* so that picks toggle too
C23_Witness ==
    /\ activeIds["A"] # <<>>
    /\ activeIds["B"] # <<>>
    /\ \A side \in Sides : pickersReady[side] /\ pickers[side] # <<>>
    /\ pending = {}


\* ---- C24
\* the side is hidden: its Show Mesh switch is off and the hide effect has run
Hidden(side) == ~show[side] /\ <<"hide", side>> \notin pending

\* what the hide effect itself does: when it runs for a side switched off
\* it empties that side's Selection Set and clears its show-all-splines
\* flag, and it leaves the other side's set and flag as they are
HideEffectClears ==
    [][\A side \in Sides :
          HideEffect(side) =>
              /\ ~show[side] => activeIds'[side] = <<>> /\ ~showAllSplines'[side]
              /\ \A other \in Sides \ {side} :
                    /\ activeIds'[other] = activeIds[other]
                    /\ showAllSplines'[other] = showAllSplines[other]]_vars

\* C24: whenever a side is hidden (its Show Mesh switch is off and the hide
\* effect has run), its Selection Set is empty and its show-all-splines
\* flag is false
C24_HiddenSideIsCleared ==
    \A side \in Sides :
        Hidden(side) => activeIds[side] = <<>> /\ ~showAllSplines[side]

\* the case of C24: side A is hidden and holds a selection nevertheless,
\* side B is shown with a selection of its own
C24_SelectedWhileHidden ==
    /\ Hidden("A") /\ activeIds["A"] # <<>>
    /\ show["B"] /\ activeIds["B"] # <<>>
    /\ pending = {}


\* ---- C25
\* C25: a display-number change is committed only for a tooth that is in
\* its side's Selection Set when its number field is blurred: every step
\* that changes a record or sets an editable document is the blur of a
\* selected tooth, and the blur of an unselected tooth changes no record,
\* no document and no error, whatever its draft
C25_CommitOnlyWhenSelected ==
    [][/\ recs' # recs \/ docs' # docs \/ meshLocal' # meshLocal =>
              \E side \in Sides, id \in Range(KeyOrder) :
                  /\ id \in IdsOf(side)
                  /\ Selected(side, id)
                  /\ Blur(side, id)
       /\ \A side \in Sides, id \in Range(KeyOrder) :
              Blur(side, id) /\ ~Selected(side, id) =>
                  UNCHANGED <<recs, docs, meshLocal, pending, errors, drafts>>]_vars

\* the case of C25: a tooth that is no longer selected has a draft in
\* 1..16 that is not its number, and no number of its side was changed
C25_Witness ==
    \E id \in IdsOf("A") :
        /\ ~Selected("A", id)
        /\ drafts["A"][id] = <<"9">>
        /\ ToothOf("A", id).num # 9
        /\ ~Renumbered("A")
        /\ pending = {}


\* ---- C26
\* an inner point has been computed for the probe's outer point
Offsetted == "inner" \in DOMAIN probe /\ probe.inner # None

\* the squared length of the probe's dir and its whole length d
OuterDistance ==
    Isqrt((probe.p[1] - probe.c2[1]) * (probe.p[1] - probe.c2[1])
          + (probe.p[2] - probe.c2[2]) * (probe.p[2] - probe.c2[2]))

\* C26: for an outer point at distance d from the 2D centroid and a wall
\* w >= 0 the inner point is c2 + t (p - c2) with 0 <= t <= 1 (on the
\* segment, never across the centroid, never farther out than p), its
\* distance from the centroid is max(0, d - w), and it is the centroid
\* itself when d <= w, d = 0 included
C26_InnerPointOnSegment ==
    Offsetted =>
        LET q == probe.inner[1]
            dx == probe.p[1] - probe.c2[1]
            dy == probe.p[2] - probe.c2[2]
            ix == q.x - probe.c2[1] * q.d
            iy == q.y - probe.c2[2] * q.d
            d == OuterDistance
            w == probe.wall
        IN  /\ q.d > 0
            /\ ix * dy = iy * dx
            /\ ix * dx + iy * dy >= 0
            /\ ix * dx + iy * dy <= (dx * dx + dy * dy) * q.d
            /\ IF d * w.d <= w.n
               THEN ix = 0 /\ iy = 0
               ELSE (ix * ix + iy * iy) * w.d * w.d
                        = (d * w.d - w.n) * (d * w.d - w.n) * q.d * q.d

\* the cases of C26: an inner point strictly between the centroid and an
\* outer point off the axes
C26_Witness ==
    /\ Offsetted
    /\ probe.p[1] # probe.c2[1] /\ probe.p[2] # probe.c2[2]
    /\ probe.wall.n > 0
    /\ probe.inner[1].x # probe.c2[1] * probe.inner[1].d
    /\ probe.inner[1].x # probe.p[1] * probe.inner[1].d


\* ---- C27
\* the review scene has been rendered
ReviewRendered == "markup" \in DOMAIN probe /\ probe.markup # None

ReviewDoc(side) == IF side = "A" THEN probe.mesh1 ELSE probe.mesh2

ReviewSelection(side) == IF side = "A" THEN probe.selectedIdsA ELSE probe.selectedIdsB

\* id is a key of the side's document with prep = 1 and a spline of at
\* least 3 points
Markable(side, id) ==
    /\ "centers" \in DOMAIN ReviewDoc(side)
    /\ id \in DOMAIN ReviewDoc(side).centers
    /\ LET t == ReviewDoc(side).centers[id]
       IN  t.prep = 1 /\ "spline" \in DOMAIN t /\ Len(t.spline) > 2

RenderedKeys(side) ==
    { RenderedItems(side)[i].key : i \in 1..Len(RenderedItems(side)) }

\* C27: the review scene renders a sleeve and a boundary line for exactly
\* the ids of a side's handed-off selection that are keys of the side's
\* document with prep = 1 and a spline of at least 3 points, the other
\* selected ids being skipped; the keys carry the side's prefix, so that
\* the hover key never matches a sleeve of mesh A and one of mesh B together
C27_MarkupForMarkableSelection ==
    ReviewRendered =>
        /\ \A side \in Sides :
              /\ \A id \in Range(ReviewSelection(side)) :
                    Markable(side, id) <=> (side \o ":" \o id) \in RenderedKeys(side)
              /\ Len(RenderedItems(side))
                    = Cardinality({id \in Range(ReviewSelection(side)) : Markable(side, id)})
              /\ \A i \in 1..Len(RenderedItems(side)) :
                    /\ \E id \in Range(ReviewSelection(side)) :
                          /\ RenderedItems(side)[i].key = side \o ":" \o id
                          /\ RenderedItems(side)[i].line = ReviewDoc(side).centers[id].spline
                    /\ RenderedItems(side)[i].sleeve.geom # None
        /\ \A i \in 1..Len(RenderedItems("A")), j \in 1..Len(RenderedItems("B")) :
              ~(/\ probe.hoveredKey = RenderedItems("A")[i].key
                /\ probe.hoveredKey = RenderedItems("B")[j].key)

\* the case of C27: both sides render the sleeve of id "3", side A's
\* selection also holds a non-defective, a degenerate or a missing id that
\* is skipped, and the sleeve of mesh A is hovered
C27_Witness ==
    /\ ReviewRendered
    /\ "A:3" \in RenderedKeys("A") /\ "B:3" \in RenderedKeys("B")
    /\ \E id \in Range(probe.selectedIdsA) : ~Markable("A", id)
    /\ "99" \in Range(probe.selectedIdsA)
    /\ probe.hoveredKey = "A:3"


\* ---- C28
\* the document a side's editable reference points to, with its records
\* read from the heap
DocValue(heap, doclist, ref) ==
    [ is_lower |-> doclist[ref].is_lower,
      centers |-> [k \in DOMAIN doclist[ref].centers |-> heap[doclist[ref].centers[k]]] ]

\* C28: changeNumA(id, n) / changeNumB(id, n) changes the num of the record
\* keyed id in its side's editable document to n and nothing else: the
\* sibling records, the record's prep, center and spline, is_lower, the
\* other side's document and both Selection Sets stay as they are, and no
\* record changes when id is not a key of the document
C28_ChangeNumFrame ==
    [][\A side \in Sides, id \in CallIds, n \in CallNums :
          ChangeNumCall(side, id, n) =>
              /\ activeIds' = activeIds
              /\ \A other \in Sides \ {side} :
                    /\ meshLocal'[other] = meshLocal[other]
                    /\ meshLocal[other] # NullRef =>
                          DocValue(recs', docs', meshLocal'[other])
                              = DocValue(recs, docs, meshLocal[other])
              /\ meshLocal[side] = NullRef => UNCHANGED <<recs, docs, meshLocal>>
              /\ meshLocal[side] # NullRef =>
                    LET old == DocValue(recs, docs, meshLocal[side])
                        new == DocValue(recs', docs', meshLocal'[side])
                    IN  /\ new.is_lower = old.is_lower
                        /\ DOMAIN new.centers = DOMAIN old.centers
                        /\ \A k \in DOMAIN old.centers :
                              new.centers[k] = IF k = id
                                               THEN [old.centers[k] EXCEPT !.num = n]
                                               ELSE old.centers[k]
                        /\ id \notin DOMAIN old.centers => recs' = recs
                        /\ \A r \in DOMAIN recs :
                              recs'[r] # recs[r] =>
                                  /\ id \in DOMAIN old.centers
                                  /\ r = docs[meshLocal[side]].centers[id]]_vars

\* the case of C28: a number of mesh A was changed by an earlier call while
\* a tooth was selected, and the last call named an id that is no key
C28_Witness ==
    /\ "calls" \in DOMAIN probe
    /\ probe.last # None
    /\ probe.last[1][1] = "A" /\ probe.last[1][2] = "99"
    /\ Renumbered("A")
    /\ activeIds["A"] # <<>>


\* ---- C29
\* C29: in every state of the viewer every id of a side's Selection Set is
\* a key of the side's editable document whose record has prep = 1
C29_SelectionIsDefective ==
    \A side \in Sides :
        \A id \in Range(activeIds[side]) :
            id \in IdsOf(side) /\ ToothOf(side, id).prep = 1

\* the case of C29: the document has a non-defective tooth whose loop is
\* in reach of the clicks, a defective tooth is selected after a display
\* number was edited and the registry rebuilt from the edited document
C29_Witness ==
    /\ activeIds["A"] # <<>>
    /\ \E id \in IdsOf("A") :
          /\ ToothOf("A", id).prep = 0
          /\ "spline" \in DOMAIN ToothOf("A", id)
          /\ Len(ToothOf("A", id).spline) >= 3
    /\ Renumbered("A")
    /\ RegistryCurrent("A")
    /\ pickers["A"] # <<>>
    /\ pending = {}


\* ---- C30
\* C30: the viewer is redirected to the upload screen on mount because of
\* the refresh flag only after an actual page reload; a mount reached by
\* navigation inside the application (a submit of the upload page) is never
\* redirected, also when an earlier beforeunload was cancelled
C30_RedirectOnlyAfterReload ==
    "flag" \in DOMAIN probe =>
        (probe.redirected => probe.via = "reload")

\* the rest of C30: the flag a beforeunload sets is consumed by the next
\* mount of the viewer: the mount effect leaves no flag behind, it
\* redirects exactly when it found the flag, and the mount that follows a
\* reload is always redirected
FlagConsumedByNextMount ==
    [][RefreshEffect =>
          /\ ~probe'.flag
          /\ probe'.redirected <=> probe.flag
          /\ probe.via = "reload" => probe'.redirected]_vars

\* the case of C30: a mount reached by a submit was redirected after a
\* beforeunload whose dialog was cancelled
C30_RedirectedAfterSubmit ==
    /\ "flag" \in DOMAIN probe
    /\ probe.redirected /\ probe.via = "submit"
    /\ probe.page = "upload" /\ ~probe.flag
    /\ probe.unloads = 1

====
